---------------------------- MODULE Spec2Model ----------------------------
(***************************************************************************)
(* A model of the c9ai command router: the interactive REPL (c9ai.js), the *)
(* dispatcher C9AI.handleCommand, the conversational/actionable classifier *)
(* C9AI.isConversationalInput and the pattern resolver                     *)
(* C9AI.runPatternMatchingAI (c9ai-core.js).                               *)
(*                                                                         *)
(* Strings are TLA+ strings; JavaScript's string methods and the regular   *)
(* expressions of the source are written out as operators over them.       *)
(***************************************************************************)
EXTENDS Naturals, Sequences, FiniteSets, TLC

(***************************************************************************)
(* JavaScript string primitives.                                           *)
(***************************************************************************)

\* s.charAt(i - 1): the i-th character (1-based), "" out of range
charAt(s, i) == IF i >= 1 /\ i <= Len(s) THEN SubSeq(s, i, i) ELSE ""

\* s.substring(n): s without its first n characters
substring(s, n) == SubSeq(s, n + 1, Len(s))

\* s.startsWith(p)
startsWith(s, p) == Len(p) <= Len(s) /\ SubSeq(s, 1, Len(p)) = p

\* s.endsWith(p)
endsWith(s, p) == Len(p) <= Len(s) /\ SubSeq(s, Len(s) - Len(p) + 1, Len(s)) = p

\* p occurs in s starting at position i (1-based)
occursAt(s, p, i) == i >= 1 /\ i + Len(p) - 1 <= Len(s) /\ SubSeq(s, i, i + Len(p) - 1) = p

\* s.includes(p)
includes(s, p) == \E i \in 1..(Len(s) + 1) : occursAt(s, p, i)

\* s.indexOf(p) + 1, or 0 when p does not occur
indexOf(s, p) ==
    IF includes(s, p)
    THEN CHOOSE i \in 1..(Len(s) + 1) :
            occursAt(s, p, i) /\ \A j \in 1..(i - 1) : ~occursAt(s, p, j)
    ELSE 0

\* \s of a regular expression, String.prototype.trim's white space
isSpace(c) == c \in {" ", "\t"}

\* \w of a regular expression
isWordChar(c) ==
    c \in {"a","b","c","d","e","f","g","h","i","j","k","l","m","n","o","p","q",
           "r","s","t","u","v","w","x","y","z",
           "A","B","C","D","E","F","G","H","I","J","K","L","M","N","O","P","Q",
           "R","S","T","U","V","W","X","Y","Z",
           "0","1","2","3","4","5","6","7","8","9","_"}

\* one character of s.toLowerCase()
lowerChar(c) ==
    CASE c = "A" -> "a" [] c = "B" -> "b" [] c = "C" -> "c" [] c = "D" -> "d"
      [] c = "E" -> "e" [] c = "F" -> "f" [] c = "G" -> "g" [] c = "H" -> "h"
      [] c = "I" -> "i" [] c = "J" -> "j" [] c = "K" -> "k" [] c = "L" -> "l"
      [] c = "M" -> "m" [] c = "N" -> "n" [] c = "O" -> "o" [] c = "P" -> "p"
      [] c = "Q" -> "q" [] c = "R" -> "r" [] c = "S" -> "s" [] c = "T" -> "t"
      [] c = "U" -> "u" [] c = "V" -> "v" [] c = "W" -> "w" [] c = "X" -> "x"
      [] c = "Y" -> "y" [] c = "Z" -> "z" [] OTHER -> c

\* s.toLowerCase()
RECURSIVE toLowerCase(_)
toLowerCase(s) ==
    IF s = "" THEN "" ELSE lowerChar(charAt(s, 1)) \o toLowerCase(substring(s, 1))

\* s.trimStart()
RECURSIVE trimStart(_)
trimStart(s) ==
    IF s # "" /\ isSpace(charAt(s, 1)) THEN trimStart(substring(s, 1)) ELSE s

\* s.trimEnd()
RECURSIVE trimEnd(_)
trimEnd(s) ==
    IF s # "" /\ isSpace(charAt(s, Len(s)))
    THEN trimEnd(SubSeq(s, 1, Len(s) - 1))
    ELSE s

\* s.trim()
trim(s) == trimEnd(trimStart(s))

\* s.split(' ')[0]: the text before the first blank
firstToken(s) ==
    IF includes(s, " ") THEN SubSeq(s, 1, indexOf(s, " ") - 1) ELSE s

\* s.split(' ').slice(1).join(' '): the text after the first blank
restTokens(s) ==
    IF includes(s, " ") THEN substring(s, indexOf(s, " ")) ELSE ""

\* /^(a|b|...)/.test(s)
startsWithAny(s, alts) == \E p \in alts : startsWith(s, p)

\* s.includes(a) || s.includes(b) || ...
includesAny(s, alts) == \E p \in alts : includes(s, p)

\* /\b(a|b|...)\b/.test(s), every alternative beginning and ending in a \w
wordMatch(s, alts) ==
    \E p \in alts : \E i \in 1..Len(s) :
        /\ occursAt(s, p, i)
        /\ ~isWordChar(charAt(s, i - 1))
        /\ ~isWordChar(charAt(s, i + Len(p)))

\* /a.*b/.test(s): a, then anything, then b
inOrder(s, a, b) ==
    \E i \in 1..Len(s) : occursAt(s, a, i) /\ includes(substring(s, i + Len(a) - 1), b)

\* /a.*\?$/.test(s): a somewhere, and s ends in a question mark after it
thenQuestionEnd(s, a) ==
    \E i \in 1..Len(s) : occursAt(s, a, i) /\ i + Len(a) <= Len(s) /\ endsWith(s, "?")


(***************************************************************************)
(* C9AI.isConversationalInput: the conversational/actionable classifier.   *)
(***************************************************************************)

\* commandPatterns.some(pattern => pattern.test(lower))
commandPatterns(lower) ==
    \/ startsWithAny(lower, {"open", "launch", "start", "run"})
    \/ startsWithAny(lower, {"list", "show", "display"})
    \/ startsWithAny(lower, {"check", "verify", "test"})
    \/ startsWithAny(lower, {"search", "find", "look"})
    \/ startsWithAny(lower, {"create", "make", "build"})
    \/ startsWithAny(lower, {"delete", "remove", "close"})
    \/ startsWithAny(lower, {"compile", "execute", "install"})
    \/ inOrder(lower, "disk", "usage") \/ includes(lower, "space")
    \/ inOrder(lower, "git", "status")
    \/ includesAny(lower, {"process", "file", "directory"})

\* /\?(.*conversational|chat|talk|discuss)/.test(lower)
questionAboutConversation(lower) ==
    \E i \in 1..Len(lower) :
        /\ charAt(lower, i) = "?"
        /\ \/ includes(substring(lower, i), "conversational")
           \/ startsWithAny(substring(lower, i), {"chat", "talk", "discuss"})

\* conversationalPatterns.some(pattern => pattern.test(lower))
conversationalPatterns(lower) ==
    \/ startsWithAny(lower, {"hi", "hello", "hey", "good morning", "good afternoon",
                             "good evening"})
    \/ startsWithAny(lower, {"how are you", "what's up", "what can you do"})
    \/ startsWithAny(lower, {"thanks", "thank you", "goodbye", "bye"})
    \/ startsWithAny(lower, {"who are you", "what are you"})
    \/ startsWithAny(lower, {"please", "can you", "could you", "would you"})
    \/ startsWithAny(lower, {"tell me", "explain", "describe"})
    \/ startsWithAny(lower, {"what do you think", "do you like", "do you know"})
    \/ thenQuestionEnd(lower, "will you")
    \/ thenQuestionEnd(lower, "can you")
    \/ thenQuestionEnd(lower, "do you")
    \/ thenQuestionEnd(lower, "are you")
    \/ questionAboutConversation(lower)

hasQuestionWords(lower) ==
    wordMatch(lower, {"what", "why", "how", "when", "where", "who", "which"})

hasQuestionMark(input) == includes(input, "?")

hasConversationalWords(lower) ==
    wordMatch(lower, {"generally", "really", "actually", "maybe", "perhaps", "think",
                      "feel", "believe"})

hasCommandKeywords(lower) ==
    wordMatch(lower, {"usage", "status", "files", "directory", "process", "disk", "space"})

\* a default that asks for the question mark at the end of the input
defaultConversationalAtEnd(input, lower) == endsWith(input, "?") \/ Len(lower) < 15

\* the last line of isConversationalInput: a question or a very short input
defaultConversational(input, lower) == hasQuestionMark(input) \/ Len(lower) < 15

\* the classifier with the conversational patterns tried before the
\* command patterns
isConversationalInputChatFirst(input) ==
    LET lower == trim(toLowerCase(input)) IN
    IF conversationalPatterns(lower) THEN TRUE
    ELSE IF commandPatterns(lower) THEN FALSE
    ELSE IF hasQuestionWords(lower) /\ hasQuestionMark(input) /\ ~hasCommandKeywords(lower)
         THEN TRUE
    ELSE IF hasConversationalWords(lower) THEN TRUE
    ELSE defaultConversational(input, lower)

\* C9AI.isConversationalInput
isConversationalInput(input) ==
    LET lower == trim(toLowerCase(input)) IN
    IF commandPatterns(lower) THEN FALSE
    ELSE IF conversationalPatterns(lower) THEN TRUE
    ELSE IF hasQuestionWords(lower) /\ hasQuestionMark(input) /\ ~hasCommandKeywords(lower)
         THEN TRUE
    ELSE IF hasConversationalWords(lower) THEN TRUE
    ELSE defaultConversational(input, lower)


(***************************************************************************)
(* C9AI.runPatternMatchingAI: the pattern resolver.  The prompts are single *)
(* lines, so "." of a regular expression matches every character.          *)
(***************************************************************************)

\* the position after the white space that follows position i, or 0 when no
\* white space starts at i
RECURSIVE skipSpaces(_, _)
skipSpaces(s, i) ==
    IF isSpace(charAt(s, i)) THEN skipSpaces(s, i + 1) ELSE i

\* whether /kw\s+(.+)/ matches with kw at position i
keywordMatchesAt(s, kw, i) ==
    /\ occursAt(s, kw, i)
    /\ isSpace(charAt(s, i + Len(kw)))
    /\ i + Len(kw) + 1 <= Len(s)

\* s.match(/kw\s+(.+)/): whether it matches
keywordMatch(s, kw) == \E i \in 1..Len(s) : keywordMatchesAt(s, kw, i)

\* s.match(/kw\s+(.+)/)[1]: the group of the leftmost match, \s+ being greedy
keywordGroup(s, kw) ==
    LET i == CHOOSE k \in 1..Len(s) :
                 keywordMatchesAt(s, kw, k) /\ \A j \in 1..(k - 1) : ~keywordMatchesAt(s, kw, j)
        j == skipSpaces(s, i + Len(kw))
    IN  IF j <= Len(s) THEN SubSeq(s, j, Len(s)) ELSE SubSeq(s, Len(s), Len(s))

\* the group of (.+?)(?:\s|$) matched at the start of r (r not empty): the
\* shortest non-empty prefix that white space or the end follows
lazyGroup(r) ==
    LET k == CHOOSE n \in 1..Len(r) :
                 /\ (n = Len(r) \/ isSpace(charAt(r, n + 1)))
                 /\ \A m \in 1..(n - 1) : ~(m = Len(r) \/ isSpace(charAt(r, m + 1)))
    IN  SubSeq(r, 1, k)

\* taskLower.match(/search.*?(?:for\s+)?(.+?)(?:\s|$)/)?.[1] || 'tutorial'
\* for a taskLower that includes "search": .*? stays empty, the optional
\* group is taken only when "for" and white space follow "search" at once
searchTerm(taskLower) ==
    LET r == substring(taskLower, indexOf(taskLower, "search") + Len("search") - 1)
        j == skipSpaces(r, Len("for") + 1)
    IN  IF r = "" THEN "tutorial"
        ELSE IF startsWith(r, "for") /\ isSpace(charAt(r, Len("for") + 1))
             THEN IF j <= Len(r) THEN lazyGroup(SubSeq(r, j, Len(r)))
                  ELSE IF j - 1 > Len("for") + 1 THEN SubSeq(r, Len(r), Len(r))
                  ELSE lazyGroup(r)
        ELSE lazyGroup(r)

\* the application chosen by the "open" rule
openApp(taskLower) ==
    IF includesAny(taskLower, {"excel", "spreadsheet"}) THEN "excel"
    ELSE IF includesAny(taskLower, {"word", "document"}) THEN "word"
    ELSE IF includesAny(taskLower, {"browser", "chrome", "firefox"}) THEN "chrome"
    ELSE IF includesAny(taskLower, {"code", "vscode", "editor"}) THEN "code"
    ELSE IF includesAny(taskLower, {"terminal", "command"}) THEN "terminal"
    ELSE IF includesAny(taskLower, {"calculator", "calc"}) THEN "calculator"
    ELSE IF includesAny(taskLower, {"notes", "notepad"}) THEN "notepad"
    ELSE IF keywordMatch(taskLower, "open") THEN trim(keywordGroup(taskLower, "open"))
    ELSE "file"

\* C9AI.generateCode: "@create: <filename>\n<code>"; the generated program
\* text is left out
generateCode(prompt) ==
    LET lowerPrompt == toLowerCase(prompt)
        filename ==
            IF includesAny(lowerPrompt, {"javascript", "js"}) THEN "program.js"
            ELSE IF includesAny(lowerPrompt, {"python", "py"}) THEN "program.py"
            ELSE IF includes(lowerPrompt, "java") THEN "Program.java"
            ELSE IF includesAny(lowerPrompt, {"c++", "cpp"}) THEN "program.cpp"
            ELSE "program.py"
    IN  "@create: " \o filename \o "\n"

\* whether character c matches [a-z\s] under the i flag
isLetterOrSpace(c) == isSpace(c) \/ (isWordChar(c) /\ c \notin
    {"0","1","2","3","4","5","6","7","8","9","_"})

\* /(write|create|make)\s+[a-z\s]*?\s+(.+)/i tried with verb v at position
\* i: the position where its second white space begins, or 0 when it does
\* not match there.  The first white space is greedy and the middle part
\* lazy: the middle ends at the first blank that text follows, and when
\* there is none the first white space gives its last blank back.
verbTopicAt(low, v, i) ==
    LET p == i + Len(v)
        q == skipSpaces(low, p)
        cand == { m \in q..Len(low) :
                    /\ isSpace(charAt(low, m))
                    /\ m + 1 <= Len(low)
                    /\ \A k \in q..(m - 1) : isLetterOrSpace(charAt(low, k)) }
    IN  IF ~(occursAt(low, v, i) /\ isSpace(charAt(low, p))) THEN 0
        ELSE IF cand # {} THEN CHOOSE m \in cand : \A o \in cand : m <= o
        ELSE IF q - p >= 2 /\ q <= Len(low) THEN q - 1
        ELSE 0

\* the positions where the second topic expression matches
verbTopicPlaces(low) ==
    { i \in 1..Len(low) : \E v \in {"write", "create", "make"} : verbTopicAt(low, v, i) # 0 }

\* the text from the first non-blank at or after position m of low, taken
\* from prompt: the group (.+) that follows a greedy \s+ starting at m
groupAfterSpaces(prompt, low, m) ==
    LET j == skipSpaces(low, m) IN
    IF j <= Len(low) THEN SubSeq(prompt, j, Len(prompt))
    ELSE SubSeq(prompt, Len(prompt), Len(prompt))

\* the topic of a content request:
\* prompt.match(/about\s+(.+)/i) || prompt.match(/(write|create|make)\s+[a-z\s]*?\s+(.+)/i)
contentTopic(prompt) ==
    LET low == toLowerCase(prompt) IN
    IF keywordMatch(low, "about")
    THEN LET i == CHOOSE k \in 1..Len(low) :
                      keywordMatchesAt(low, "about", k)
                      /\ \A j \in 1..(k - 1) : ~keywordMatchesAt(low, "about", j)
         IN  trim(groupAfterSpaces(prompt, low, i + Len("about")))
    ELSE IF verbTopicPlaces(low) # {}
    THEN LET i == CHOOSE k \in verbTopicPlaces(low) : \A o \in verbTopicPlaces(low) : k <= o
             v == CHOOSE w \in {"write", "create", "make"} : verbTopicAt(low, w, i) # 0
         IN  trim(groupAfterSpaces(prompt, low, verbTopicAt(low, v, i)))
    ELSE "general topic"

\* the content tool request of the create rule
createContent(prompt) ==
    LET taskLower == toLowerCase(prompt)
        contentType == IF includes(taskLower, "post") THEN "post"
                       ELSE IF includes(taskLower, "article") THEN "article"
                       ELSE "document"
    IN  "@tool: create_content type=\"" \o contentType \o "\" topic=\""
            \o contentTopic(prompt) \o "\""

\* C9AI.getSuggestions
getSuggestions(input) ==
    IF includesAny(input, {"excel", "spreadsheet"}) THEN "Try: \"open excel\""
    ELSE IF includesAny(input, {"file", "document"})
         THEN "Try: \"list files\" or \"open document\""
    ELSE IF includesAny(input, {"search", "find"}) THEN "Try: \"search for [topic]\""
    ELSE IF includes(input, "help") THEN "Try: \"help\" for available commands"
    ELSE "Try commands like: \"open excel\", \"list files\", \"search for tutorials\", or \"help\""

\* the chain with the search rules tried before the open rule
RulesSearchBeforeOpen ==
    << "greeting", "howAreYou", "thanks", "search", "find", "open", "listFiles",
       "showFiles", "checkDisk", "showProcesses", "compile", "run", "help", "create",
       "close" >>

\* the rules of the cascade, in the order of the if / else-if chain
Rules == << "greeting", "howAreYou", "thanks", "open", "listFiles", "showFiles",
            "search", "find", "checkDisk", "showProcesses", "compile", "run",
            "help", "create", "close" >>

\* the condition of each rule
ruleMatches(rule, taskLower) ==
    CASE rule = "greeting" ->
            taskLower \in {"hi", "hello", "hey", "greetings", "good morning",
                           "good afternoon", "good evening"}
      [] rule = "howAreYou" ->
            taskLower \in {"how are you", "what's up", "how's it going"}
      [] rule = "thanks" -> includesAny(taskLower, {"thank", "thanks"})
      [] rule = "open" -> includes(taskLower, "open")
      [] rule = "listFiles" ->
            includes(taskLower, "list")
            /\ includesAny(taskLower, {"files", "directories", "folder"})
      [] rule = "showFiles" ->
            includes(taskLower, "show") /\ includesAny(taskLower, {"files", "directory"})
      [] rule = "search" -> includes(taskLower, "search")
      [] rule = "find" -> includes(taskLower, "find") /\ ~includes(taskLower, "file")
      [] rule = "checkDisk" -> includes(taskLower, "check") /\ includes(taskLower, "disk")
      [] rule = "showProcesses" ->
            includes(taskLower, "show") /\ includes(taskLower, "process")
      [] rule = "compile" -> includesAny(taskLower, {"compile", "build"})
      [] rule = "run" -> includes(taskLower, "run")
      [] rule = "help" ->
            taskLower \in {"help", "what can you do", "commands", "options"}
      [] rule = "create" -> includesAny(taskLower, {"create", "make", "write"})
      [] rule = "close" -> includesAny(taskLower, {"close", "exit", "quit"})
      [] OTHER -> FALSE

\* what the body of each rule passes to resolve(); the long fixed replies are
\* cut after their first sentence
ruleResponse(rule, prompt) ==
    LET taskLower == toLowerCase(prompt) IN
    CASE rule = "greeting" -> "Hello! I'm C9 AI."
      [] rule = "howAreYou" -> "I'm doing great!"
      [] rule = "thanks" -> "You're welcome!"
      [] rule = "open" -> "@action: open " \o openApp(taskLower)
      [] rule = "listFiles" -> "@action: list files"
      [] rule = "showFiles" -> "@action: list files"
      [] rule = "search" -> "@action: search " \o searchTerm(taskLower)
      [] rule = "find" ->
            "@action: search " \o (IF keywordMatch(taskLower, "find")
                                   THEN keywordGroup(taskLower, "find")
                                   ELSE "information")
      [] rule = "checkDisk" -> "@action: check disk usage"
      [] rule = "showProcesses" -> "@action: show processes"
      [] rule = "compile" ->
            "@action: compile " \o (IF includes(taskLower, "research")
                                    THEN "research_paper.tex"
                                    ELSE "document.tex")
      [] rule = "run" ->
            IF keywordMatch(taskLower, "run")
            THEN "@action: run " \o trim(keywordGroup(taskLower, "run"))
            ELSE "@action: run script.sh"
      [] rule = "help" -> "I can help you with:"
      [] rule = "create" ->
            IF includesAny(taskLower, {"program", "code", "script"})
            THEN generateCode(prompt)
            ELSE createContent(prompt)
      [] rule = "close" -> "To exit C9AI, type \"exit\" or \"quit\"."
      [] OTHER -> ""

\* the final else: the rejection's message
unrecognizedMessage(prompt) ==
    "I'm not sure what you mean by \"" \o prompt \o "\". "
        \o getSuggestions(toLowerCase(prompt))

\* the if / else-if chain from rule k on: the rules whose body runs
RECURSIVE cascade(_, _)
cascade(k, taskLower) ==
    IF k > Len(Rules) THEN << "unrecognized" >>
    ELSE IF ruleMatches(Rules[k], taskLower) THEN << Rules[k] >>
    ELSE cascade(k + 1, taskLower)

\* the rules whose body runs for a prompt
rulesFired(prompt) == cascade(1, toLowerCase(prompt))

\* a resolver whose final else resolves with a default action
runPatternMatchingAIDefaultAction(prompt) ==
    LET rule == Head(rulesFired(prompt)) IN
    IF rule = "unrecognized"
    THEN [settled |-> "resolved", fired |-> rulesFired(prompt), rule |-> rule,
          value |-> "@action: search " \o toLowerCase(prompt)]
    ELSE [settled |-> "resolved", fired |-> rulesFired(prompt), rule |-> rule,
          value |-> ruleResponse(rule, prompt)]

\* the settlement of the promise runPatternMatchingAI returns: the first
\* resolve() or reject() call decides it; the 5 s timer is armed after the
\* 500 ms one and never fires first
runPatternMatchingAI(prompt) ==
    LET rule == Head(rulesFired(prompt)) IN
    IF rule = "unrecognized"
    THEN [settled |-> "rejected", fired |-> rulesFired(prompt), rule |-> rule,
          value |-> unrecognizedMessage(prompt)]
    ELSE [settled |-> "resolved", fired |-> rulesFired(prompt), rule |-> rule,
          value |-> ruleResponse(rule, prompt)]


(***************************************************************************)
(* The inputs of the model.                                                *)
(***************************************************************************)

\* how many words a generated prompt has at most
MaxWords == 2

\* how many timed-out model calls may be left running at once
MaxAbandoned == 2

\* the words the generated prompts are made of
Vocabulary == {"open", "search", "excel", "compile", "research", "thanks", "run", "xyzzy"}

\* every prompt of 1..n words of the vocabulary, single blanks between them
RECURSIVE wordPrompts(_)
wordPrompts(n) ==
    IF n = 0 THEN {}
    ELSE IF n = 1 THEN Vocabulary
    ELSE wordPrompts(n - 1)
         \cup { p \o " " \o w : p \in wordPrompts(n - 1), w \in Vocabulary }

\* prompts written out: the examples of the specification and the cases of
\* the classifier and of the resolver
Phrases ==
    { "open excel", "Open Excel", "check disk usage", "compile my research paper",
      "compile the document", "build it", "do you think check disk usage is useful?",
      "check disk usage, do you think?", "search and open the report",
      "please search for cats", "hello", "hey there", "how are you", "thank you",
      "what is the meaning of life?", "what is the disk status?",
      "I think we are done here", "hmm? ping the server now", "ping the server right now",
      "good day", "deploy", "will you help?", "so? chat with me a bit longer",
      "list files", "show files", "find my keys", "find the file", "show processes",
      "run tests", "help", "write a post about cats", "create a program in python",
      "quit now please ok", "frobnicate the quux lattice", "can you open excel?",
      "launch space invaders", "git push then git status", "tell me about files" }

\* the prompts given to the classifier and to the resolver
Prompts == Phrases \cup wordPrompts(MaxWords)

\* what the user types at the c9ai> prompt
Commands ==
    { "", "   ", "exit", "quit", "stop", " exit ", "Exit", "emergency exit", "Emergency Exit",
      "!", "!ls -la", "! ls -la", "!cd /tmp", "!cd", "!cd ~", "!cd /nope", "! cd /tmp",
      "!cdrom", "!@claude hi", "!help",
      "@claude", "@claude explain monads", "@gemini", "@gemini hi", "@local", "@local hi",
      "@conv", "@conv how are you", "@chat hi", "@cmd open excel", "@command list files",
      "@cmd show processes",
      "@tool create_content", "@Claude hi", "@foo bar", "@help", "@",
      "claude explain monads", "CLAUDE hi", "gemini", "switch gemini", "switch gpt",
      "Switch local", "todos", "add buy milk", "analytics", "tools list", "models",
      "models install phi-3", "scan", "issues", "achieve inbox zero", "goal ship it",
      "config", "help", "HELP", "logo", "banner",
      "hello", "open excel", "compile my research paper", "frobnicate the quux lattice",
      "what is the meaning of life?" }

(***************************************************************************)
(* The platform as the model sees it.                                      *)
(***************************************************************************)

\* os.homedir()
homedir == "/home/user"

\* the directories process.chdir can enter
Directories == {"/home/user", "/tmp", "/work"}

\* the directory the process is started in
startDir == "/work"

\* validModels of switchModel
validModels == {"claude", "gemini", "local"}

\* this.maxRetries
maxRetries == 3


(***************************************************************************)
(* C9AI.handleCommand: the branches an input is dispatched to.             *)
(***************************************************************************)

\* the remainder as it stands, without the trim
shellCommandOfVerbatim(input) == substring(input, 1)

\* const shellCommand = input.substring(1).trim()
shellCommandOf(input) == trim(substring(input, 1))

\* let targetDir = shellCommand.substring(2).trim(), the home directory for
\* none and for "~"
targetDirOf(shellCommand) ==
    LET targetDir == trim(substring(shellCommand, 2)) IN
    IF targetDir = "" \/ targetDir = "~" THEN homedir ELSE targetDir

\* what the "!" branch does with the input
shellHandler(input) ==
    IF shellCommandOf(input) = "" THEN "none"
    ELSE IF startsWith(shellCommandOf(input), "cd") THEN "chdir"
    ELSE "runShellCommand"

\* the "!" branch
shellBranch(input) ==
    IF startsWith(input, "!")
    THEN << [branch |-> "shell", handler |-> shellHandler(input), model |-> "",
             arg |-> shellCommandOf(input)] >>
    ELSE << >>

\* the "!" branch without its return: the input goes on to the later branches
shellReturnsMissing(input) == FALSE

\* the "return; // Command handled" that ends the "!" branch
shellReturns(input) == startsWith(input, "!")

\* the cases of switch (mode)
ModeSigils == {"claude", "gemini", "local", "conv", "chat", "cmd", "command", "tool"}

\* const mode = input.substring(1).split(' ')[0]
modeOf(input) == firstToken(substring(input, 1))

\* const content = parts.slice(1).join(' ')
contentOf(input) == restTokens(substring(input, 1))

\* the handler a mode sigil selects, and its argument
modeHandler(input) ==
    LET mode == modeOf(input)
        content == contentOf(input)
    IN  CASE mode \in {"claude", "gemini", "local"} ->
                IF content # ""
                THEN [branch |-> "mode", handler |-> "runAI", model |-> mode, arg |-> content]
                ELSE [branch |-> "mode", handler |-> "startInteractiveSession",
                      model |-> mode, arg |-> ""]
          [] mode \in {"conv", "chat"} ->
                [branch |-> "mode", handler |-> "handleConversation", model |-> "",
                 arg |-> IF content # "" THEN content ELSE "Hello!"]
          [] mode \in {"cmd", "command"} ->
                [branch |-> "mode", handler |-> "processNaturalLanguageCommand",
                 model |-> "", arg |-> content]
          [] OTHER ->
                [branch |-> "mode", handler |-> "executeToolDirective", model |-> "",
                 arg |-> content]

\* whether the "@" branch takes the input: every case of its switch returns
modeReturns(input) == startsWith(input, "@") /\ modeOf(input) \in ModeSigils

\* the "@" branch
modeBranch(input) == IF modeReturns(input) THEN << modeHandler(input) >> ELSE << >>

\* the handler of each case of switch (command.toLowerCase())
namedHandlers ==
    [ claude |-> "runAI", gemini |-> "runAI", switch |-> "switchModel",
      todos |-> "handleTodos", add |-> "handleTodos", analytics |-> "showAnalytics",
      tools |-> "handleTools", models |-> "handleModels", scan |-> "handleKnowledgeScan",
      issues |-> "handleIssues", achieve |-> "achieveGoal", goal |-> "achieveGoal",
      config |-> "showConfig", help |-> "showHelp", logo |-> "showBanner",
      banner |-> "showBanner" ]

\* the value the switch compares with its cases
caseOf(command) == toLowerCase(command)

\* the switch on the first token, its default included
switchBranch(input) ==
    LET command == firstToken(input)
        args == restTokens(input)
        key == caseOf(command)
    IN  IF key \in DOMAIN namedHandlers
        THEN << [branch |-> "named", handler |-> namedHandlers[key],
                 model |-> IF key \in {"claude", "gemini"} THEN key ELSE "",
                 arg |-> args] >>
        ELSE IF command # "" /\ Len(trim(input)) > 0
        THEN << [branch |-> "fallback",
                 handler |-> IF isConversationalInput(trim(input))
                             THEN "handleConversation"
                             ELSE "processNaturalLanguageCommand",
                 model |-> "", arg |-> trim(input)] >>
        ELSE << >>

\* the branches handleCommand runs for an input, in the order it runs them
handleCommandBranches(input) ==
    shellBranch(input)
        \o (IF shellReturns(input) THEN << >>
            ELSE modeBranch(input)
                    \o (IF modeReturns(input) THEN << >> ELSE switchBranch(input)))

\* handleCommand without its try/catch: the error rejects the promise
handleCommandCatchMissing(out) == [promise |-> "rejected", output |-> out]

\* catch (error) { console.error('Error executing command:', ...) }: the
\* error is logged and handleCommand returns normally
handleCommandCatch(out) ==
    [promise |-> "resolved", output |-> Append(out, "Error executing command")]

\* const command = model === 'claude' ? 'claude' : 'gemini'
sessionCommand(model) == IF model = "claude" THEN "claude" ELSE "gemini"

\* the handlers whose errors reach handleCommand: handleConversation,
\* processNaturalLanguageCommand, executeToolDirective, runAI and the two
\* child-process wrappers catch or never raise their own
handlerMayThrow(handler) ==
    handler \notin {"none", "chdir", "runShellCommand", "startInteractiveSession", "runAI",
                    "handleConversation", "processNaturalLanguageCommand",
                    "executeToolDirective"}


(***************************************************************************)
(* The state of the process.                                               *)
(***************************************************************************)

VARIABLES
    pc,             \* where the REPL and the handler it awaits stand
    command,        \* the argument of the handleCommand call, the prompt of the pure checks
    todo,           \* the branches handleCommand has still to run
    ran,            \* the branches handleCommand has run for this command
    spawned,        \* the child processes started for this command
    output,         \* what was printed for this command
    promise,        \* the promise of the handleCommand call
    cwd,            \* process.cwd()
    exitCause,      \* why the process ended
    sigint,         \* whether SIGINT arrived since the last prompt
    currentModel,   \* this.currentModel
    LlamaModel,     \* whether node-llama-cpp was loaded
    modelInstalled, \* whether the models directory holds a model file
    agenticTools,   \* the names in this.agenticTools
    localModel,     \* this.localModel: "null", "real" (with a session) or "fallback"
    loads,          \* how many times initLocalModel has loaded the model file
    lastInit,       \* what the latest call of initLocalModel did: "none", "loaded", "returned"
    retryCount,     \* the retryCount of the running runLocalAI call
    abandoned,      \* session.prompt calls whose caller timed out and that still run
    response,       \* the reply of runLocalAI being acted on
    settlement,     \* how the promise of the latest runRealLocalAI call settled
    classified,     \* what isConversationalInput made of the prompt
    resolution,     \* the settlement of runPatternMatchingAI
    osType,         \* os.platform()
    scriptExists,   \* whether the scripts directory holds the target of a run intent
    thrown,         \* the message of the error the intent executor threw, "" for none
    registry,       \* this.agenticTools with its values: the tool kept under each key
    toolSelectionPrompt,    \* this.toolSelectionPrompt, "undefined" before a load
    toolsFile,      \* tools-registry.json: whether it exists, parses, and its document
    answers,        \* what inquirer gave the latest addAgenticTool
    ops,            \* the operations of handleTools on the registry so far
    appMappings,    \* this.appMappings: alias -> platform -> application
    learningData,   \* this.learningData: successful_mappings, if any, and failed_attempts
    launched,       \* what the latest open_application gave to runCommand, and how it went
    initialized,    \* this.initialized
    initCalls,      \* the init() calls that entered the body: where each one is
    configFile,     \* config.json: "none" without a file, else its defaultModel
    handling,       \* the handler a command is in, and where
    switched,       \* the model of the latest switchModel call that completed
    handled         \* how many commands have been given

vars == << pc, command, todo, ran, spawned, output, promise, cwd, exitCause, sigint,
           currentModel, LlamaModel, modelInstalled, agenticTools, localModel, loads, lastInit,
           retryCount, abandoned, response, settlement, classified, resolution, osType,
           scriptExists, thrown, registry, toolSelectionPrompt, toolsFile, answers, ops,
           appMappings, learningData, launched, initialized, initCalls, configFile,
           handling, switched, handled >>

\* the variables of one handleCommand call
callVars == << command, todo, ran, spawned, output, promise >>

\* the variables of the local model and of its calls
modelVars == << localModel, loads, lastInit, retryCount, abandoned, response, settlement, resolution >>

\* what the process is given: the platform and what init() loaded
envVars == << LlamaModel, modelInstalled, agenticTools >>

\* the variables the REPL's own steps leave alone: those of the intent
\* executor
registryVars == << registry, toolSelectionPrompt, toolsFile, answers, ops >>
appVars == << appMappings, learningData, launched >>
initVars == << initialized, initCalls, configFile, handling, switched, handled >>
toolVars == << osType, scriptExists, thrown, registryVars, appVars, initVars >>

\* the intent executor at rest
IntentIdle ==
    /\ osType = "linux"
    /\ scriptExists = FALSE
    /\ thrown = ""

\* this.agenticTools = {} of the constructor
NoTools == [k \in {} |-> k]

\* no tools-registry.json beside the program
NoFile == [exists |-> FALSE, parses |-> FALSE, doc |-> [tools |-> NoTools]]

\* no answers yet
NoAnswers ==
    [name |-> "", description |-> "", command |-> "", windows_command |-> "",
     hasParameters |-> FALSE, params |-> << >>]

\* the registry as the constructor leaves it; its values are followed by
\* the specification of handleTools only
RegistryIdle ==
    /\ registry = NoTools
    /\ toolSelectionPrompt = "undefined"
    /\ toolsFile = NoFile
    /\ answers = NoAnswers
    /\ ops = << >>

\* this.learningData = {} of the constructor: no successful_mappings yet
NoLearning == [defined |-> FALSE, successful_mappings |-> NoTools, failed_attempts |-> {}]

\* the application mappings as the constructor leaves them; they are
\* followed by the specification of open_application only
AppIdle ==
    /\ appMappings = NoTools
    /\ learningData = NoLearning
    /\ launched = << >>

\* no handler is running
NotHandling == [name |-> "none", arg |-> "", at |-> "idle"]

\* init() has returned and no command races it; the start of the process is
\* followed by the specification of init only
InitIdle ==
    /\ initialized = TRUE
    /\ initCalls = << >>
    /\ configFile = "none"
    /\ handling = NotHandling
    /\ switched = "none"
    /\ handled = 0

\* no call of runRealLocalAI has been made for the command
NoSettlement == [settled |-> "none", value |-> ""]

\* runPatternMatchingAI has not been called for the command
NoResolution == [settled |-> "none", fired |-> << >>, rule |-> "", value |-> ""]

\* the tools of tools-registry.json read by loadAgenticTools
RegistryTools == {"list_files", "open_application", "search_web"}

\* the replies session.prompt can give
ModelReplies == {"", "  ", "@action: open excel", " Sure, I can help.\n"}

\* the constructor, init() and the start of interactiveMode
Init ==
    /\ pc = "prompt"
    /\ command = ""
    /\ todo = << >>
    /\ ran = << >>
    /\ spawned = << >>
    /\ output = << >>
    /\ promise = "none"
    /\ cwd = startDir
    /\ exitCause = "none"
    /\ sigint = FALSE
    /\ currentModel = "claude"
    /\ LlamaModel \in BOOLEAN
    /\ modelInstalled \in BOOLEAN
    /\ agenticTools \in {{}, RegistryTools}
    /\ localModel = "null"
    /\ loads = 0
    /\ lastInit = "none"
    /\ retryCount = 0
    /\ abandoned = 0
    /\ response = ""
    /\ settlement = NoSettlement
    /\ classified = "unset"
    /\ resolution = NoResolution
    /\ IntentIdle
    /\ RegistryIdle
    /\ AppIdle
    /\ InitIdle

(***************************************************************************)
(* interactiveMode: the REPL loop.                                         *)
(***************************************************************************)

\* the words that end the loop
ExitWords == {"exit", "quit", "stop"}

\* what the loop computes from each line it can read: command.trim(), its
\* lower case, and the branches handleCommand runs for it
readLines ==
    { [trimmed |-> trim(c),
       lowered |-> toLowerCase(trim(c)),
       branches |-> handleCommandBranches(trim(c))] : c \in Commands }

\* the record of a command is cleared when the next one is read
NewCall(c) ==
    /\ command' = c
    /\ ran' = << >>
    /\ spawned' = << >>
    /\ output' = << >>
    /\ sigint' = FALSE
    /\ retryCount' = 0
    /\ response' = ""
    /\ settlement' = NoSettlement
    /\ resolution' = NoResolution

\* process.exit(code): the process ends, and with it the call it was
\* running and the objects it held; the model file stays on the disk
Exit(cause) ==
    /\ pc' = "exited"
    /\ exitCause' = cause
    /\ todo' = << >>
    /\ ran' = << >>
    /\ spawned' = << >>
    /\ output' = << >>
    /\ promise' = "none"
    /\ cwd' = startDir
    /\ sigint' = FALSE
    /\ currentModel' = "claude"
    /\ localModel' = "null"
    /\ loads' = 0
    /\ lastInit' = "none"
    /\ retryCount' = 0
    /\ abandoned' = 0
    /\ response' = ""
    /\ settlement' = NoSettlement
    /\ resolution' = NoResolution
    /\ UNCHANGED << command, envVars, classified, toolVars >>

\* exit, quit or stop: process.exit(0)
ReadExit(line) ==
    /\ pc = "prompt"
    /\ line.trimmed \in ExitWords
    /\ Exit(line.trimmed)

\* emergency exit: process.exit(0)
ReadEmergencyExit(line) ==
    /\ pc = "prompt"
    /\ line.trimmed \notin ExitWords
    /\ line.lowered = "emergency exit"
    /\ Exit("emergency exit")

\* an empty line: continue
ReadEmpty(line) ==
    /\ pc = "prompt"
    /\ line.trimmed = ""
    /\ NewCall("")
    /\ todo' = << >>
    /\ promise' = "none"
    /\ UNCHANGED << pc, cwd, exitCause, currentModel, envVars, localModel, loads, lastInit, abandoned,
                    classified, toolVars >>

\* await c9ai.handleCommand(command.trim()): the call starts
ReadCommand(line) ==
    /\ pc = "prompt"
    /\ line.trimmed \notin ExitWords
    /\ line.lowered # "emergency exit"
    /\ line.trimmed # ""
    /\ NewCall(line.trimmed)
    /\ todo' = line.branches
    /\ promise' = "pending"
    /\ pc' = "dispatch"
    /\ UNCHANGED << cwd, exitCause, currentModel, envVars, localModel, loads, lastInit, abandoned,
                    classified, toolVars >>

\* inquirer.prompt rejects: exit(1) for a TTY error, a message otherwise
PromptRejects(isTtyError) ==
    /\ pc = "prompt"
    /\ IF isTtyError
       THEN Exit("isTtyError")
       ELSE /\ NewCall("")
            /\ todo' = << >>
            /\ promise' = "none"
            /\ UNCHANGED << pc, cwd, exitCause, currentModel, envVars, localModel, loads, lastInit, abandoned,
                            classified, toolVars >>

\* process.on('SIGINT'): a message, nothing else
Sigint ==
    /\ pc # "exited"
    /\ pc # "pure"
    /\ sigint' = TRUE
    /\ UNCHANGED << pc, callVars, cwd, exitCause, currentModel, envVars, modelVars,
                    classified, toolVars >>

\* process.on('SIGTERM'): process.exit(0)
Sigterm ==
    /\ pc # "exited"
    /\ pc # "pure"
    /\ Exit("SIGTERM")

\* handleCommand has run its branches and returns: the promise resolves and
\* the loop prompts again
Return ==
    /\ pc = "dispatch"
    /\ todo = << >>
    /\ promise' = "resolved"
    /\ pc' = "prompt"
    /\ UNCHANGED << command, todo, ran, spawned, output, cwd, exitCause, sigint,
                    currentModel, envVars, modelVars, classified, toolVars >>


(***************************************************************************)
(* handleCommand: each branch, up to what it awaits.                       *)
(***************************************************************************)

\* the branch handleCommand runs next
next == Head(todo)

\* handleCommand moves on to the branch b
Begin(b) ==
    /\ pc = "dispatch"
    /\ todo # << >>
    /\ next.handler = b
    /\ ran' = Append(ran, next)
    /\ todo' = Tail(todo)

\* a child process started through fn
Child(fn, cmd, args) == [fn |-> fn, cmd |-> cmd, args |-> args]

\* "!" and nothing after it: nothing runs
ShellNothing ==
    /\ Begin("none")
    /\ UNCHANGED << pc, command, spawned, output, promise, cwd, exitCause, sigint,
                    currentModel, envVars, modelVars, classified, toolVars >>

\* "!cd ...": process.chdir(targetDir), its error caught and printed
ShellChdir ==
    /\ Begin("chdir")
    /\ IF targetDirOf(next.arg) \in Directories
       THEN /\ cwd' = targetDirOf(next.arg)
            /\ output' = Append(output, "Changed directory to")
       ELSE /\ cwd' = cwd
            /\ output' = Append(output, "Error changing directory")
    /\ UNCHANGED << pc, command, spawned, promise, exitCause, sigint, currentModel,
                    envVars, modelVars, classified, toolVars >>

\* await this.runShellCommand(shellCommand): spawn(command, {shell: true})
ShellRun ==
    /\ Begin("runShellCommand")
    /\ spawned' = Append(spawned, Child("runShellCommand", next.arg, ""))
    /\ pc' = "child"
    /\ UNCHANGED << command, output, promise, cwd, exitCause, sigint, currentModel,
                    envVars, modelVars, classified, toolVars >>

\* await this.startInteractiveSession(mode): spawn(command, [])
StartSession ==
    /\ Begin("startInteractiveSession")
    /\ spawned' = Append(spawned,
                         Child("startInteractiveSession", sessionCommand(next.model), ""))
    /\ pc' = "child"
    /\ UNCHANGED << command, output, promise, cwd, exitCause, sigint, currentModel,
                    envVars, modelVars, classified, toolVars >>

\* await this.runAI(model, prompt): logInteraction, whose errors are
\* dropped, then startInteractiveSession(model, prompt)
RunAI ==
    /\ Begin("runAI")
    /\ IF trim(next.arg) = ""
       THEN /\ output' = Append(output, "Please provide a prompt")
            /\ UNCHANGED << spawned, pc >>
       ELSE /\ spawned' = Append(spawned,
                   Child("startInteractiveSession", sessionCommand(next.model), next.arg))
            /\ pc' = "child"
            /\ output' = output
    /\ UNCHANGED << command, promise, cwd, exitCause, sigint, currentModel, envVars,
                    modelVars, classified, toolVars >>

\* the child process of runShellCommand, startInteractiveSession or
\* runCommand ends: its 'close' or 'error' event settles the awaited promise
ChildEnds(event) ==
    /\ pc = "child"
    /\ output' = IF event = "error" THEN Append(output, "Failed to start") ELSE output
    /\ pc' = "dispatch"
    /\ UNCHANGED << command, todo, ran, spawned, promise, cwd, exitCause, sigint,
                    currentModel, envVars, modelVars, classified, toolVars >>

\* await this.switchModel(args[0]): the model is checked and set, then
\* saveConfig and the availability test are awaited
SwitchModel ==
    /\ Begin("switchModel")
    /\ IF firstToken(next.arg) \in validModels
       THEN /\ currentModel' = firstToken(next.arg)
            /\ pc' = "handler"
            /\ output' = output
       ELSE /\ output' = Append(output, "Invalid model")
            /\ UNCHANGED << currentModel, pc >>
    /\ UNCHANGED << command, spawned, promise, cwd, exitCause, sigint, envVars,
                    modelVars, classified, toolVars >>

\* whether handleModels goes on to download a model file
startsDownload(arg) ==
    /\ firstToken(arg) = "install"
    /\ firstToken(restTokens(arg)) \in {"phi-3", "tinyllama", "llama"}

\* the other handlers of the switch and executeToolDirective: awaited work
\* of the file system, of child processes and of the network
StartHandler ==
    /\ pc = "dispatch"
    /\ todo # << >>
    /\ next.handler \in { namedHandlers[k] : k \in DOMAIN namedHandlers }
                            \cup {"executeToolDirective"}
    /\ next.handler \notin {"runAI", "switchModel"}
    /\ ran' = Append(ran, next)
    /\ todo' = Tail(todo)
    /\ pc' = IF next.handler = "handleModels" /\ startsDownload(next.arg) /\ ~modelInstalled
             THEN "download"
             ELSE "handler"
    /\ UNCHANGED << command, spawned, output, promise, cwd, exitCause, sigint,
                    currentModel, envVars, modelVars, classified, toolVars >>

\* what initLocalModel can leave in this.localModel when a model file
\* exists: a session, or the fallback when node-llama-cpp is missing or
\* fails to load the file
initLocalModelResults == IF LlamaModel THEN {"real", "fallback"} ELSE {"fallback"}

\* initLocalModel without its first line: the model file is loaded again
initLocalModelReloads(session, count, loaded) ==
    [localModel |-> loaded, loads |-> count + 1, lastInit |-> "loaded"]

\* initLocalModel: if (this.localModel && this.localModel.ready) return;
\* otherwise the model file is loaded and this.localModel is assigned
initLocalModel(session, count, loaded) ==
    IF session # "null"
    THEN [localModel |-> session, loads |-> count, lastInit |-> "returned"]
    ELSE [localModel |-> loaded, loads |-> count + 1, lastInit |-> "loaded"]

\* the awaited handler returns; switchModel to local with a model file
\* has awaited initLocalModel
HandlerReturns ==
    /\ pc = "handler"
    /\ pc' = "dispatch"
    /\ IF ran[Len(ran)].handler = "switchModel" /\ currentModel = "local" /\ modelInstalled
       THEN \E loaded \in initLocalModelResults :
                /\ localModel' = initLocalModel(localModel, loads, loaded).localModel
                /\ loads' = initLocalModel(localModel, loads, loaded).loads
                /\ lastInit' = initLocalModel(localModel, loads, loaded).lastInit
       ELSE UNCHANGED << localModel, loads, lastInit >>
    /\ UNCHANGED << callVars, cwd, exitCause, sigint, currentModel, envVars, retryCount,
                    abandoned, response, settlement, resolution, classified, toolVars >>

\* the awaited handler throws: the catch of handleCommand takes the error,
\* and the REPL's own catch prints what handleCommand lets through
HandlerThrows ==
    /\ pc = "handler"
    /\ handlerMayThrow(ran[Len(ran)].handler)
    /\ promise' = handleCommandCatch(output).promise
    /\ output' = IF handleCommandCatch(output).promise = "rejected"
                 THEN Append(handleCommandCatch(output).output, "Error:")
                 ELSE handleCommandCatch(output).output
    /\ todo' = << >>
    /\ pc' = "prompt"
    /\ UNCHANGED << command, ran, spawned, cwd, exitCause, sigint, currentModel, envVars,
                    modelVars, classified, toolVars >>

\* downloadFile settles: the file is written, or the request or the stream
\* fails after the response came and installModel prints the error
DownloadSettles(ok) ==
    /\ pc = "download"
    /\ modelInstalled' = ok
    /\ output' = Append(output, IF ok THEN "Successfully installed" ELSE "Failed to install")
    /\ pc' = "dispatch"
    /\ UNCHANGED << command, todo, ran, spawned, promise, cwd, exitCause, sigint,
                    currentModel, LlamaModel, agenticTools, modelVars, classified, toolVars >>

\* the write stream of downloadFile emits 'error' before the response came:
\* the stream has no 'error' listener yet, the error is an uncaught
\* exception, and process.on('uncaughtException') calls process.exit(1)
DownloadStreamError ==
    /\ pc = "download"
    /\ Exit("uncaughtException")


(***************************************************************************)
(* handleConversation and processNaturalLanguageCommand.                   *)
(***************************************************************************)

\* handleConversation answering from the canned replies in fallback mode
conversationReplyCanned ==
    IF ~modelInstalled THEN "No local model available. Try @claude or @gemini"
    ELSE IF localModel = "null" THEN "I'm having trouble understanding. Try @claude or @gemini"
    ELSE "conversational response"

\* what handleConversation prints: without a model file the pointer to the
\* cloud sessions; with one, localModel.fallbackMode is read (a TypeError,
\* caught, while localModel is null); a real session answers through
\* runLocalAIForConversation, which catches its own errors
conversationReply ==
    IF ~modelInstalled THEN "No local model available. Try @claude or @gemini"
    ELSE IF localModel = "null" THEN "I'm having trouble understanding. Try @claude or @gemini"
    ELSE IF localModel = "fallback" THEN "Local AI in fallback mode. Try @claude or @gemini"
    ELSE "conversational response"

\* await this.handleConversation(input): hasLocalModel is awaited
StartConversation ==
    /\ Begin("handleConversation")
    /\ pc' = "conv"
    /\ UNCHANGED << command, spawned, output, promise, cwd, exitCause, sigint,
                    currentModel, envVars, modelVars, classified, toolVars >>

\* handleConversation prints its reply and returns
ConversationReplies ==
    /\ pc = "conv"
    /\ output' = Append(output, conversationReply)
    /\ pc' = "dispatch"
    /\ UNCHANGED << command, todo, ran, spawned, promise, cwd, exitCause, sigint,
                    currentModel, envVars, modelVars, classified, toolVars >>

\* await this.processNaturalLanguageCommand(input): hasLocalModel is awaited
StartNaturalLanguage ==
    /\ Begin("processNaturalLanguageCommand")
    /\ pc' = "nl"
    /\ UNCHANGED << command, spawned, output, promise, cwd, exitCause, sigint,
                    currentModel, envVars, modelVars, classified, toolVars >>

\* the first stage is chosen: tool selection with a model file and a
\* registry, the local AI with a model file, a suggestion without one
NaturalLanguageStage ==
    /\ pc = "nl"
    /\ IF modelInstalled /\ agenticTools # {}
       THEN pc' = "tools" /\ output' = output
       ELSE IF modelInstalled
       THEN pc' = "runLocalAI" /\ output' = output
       ELSE pc' = "dispatch" /\ output' = Append(output, "suggestion")
    /\ UNCHANGED << command, todo, ran, spawned, promise, cwd, exitCause, sigint,
                    currentModel, envVars, modelVars, classified, toolVars >>

\* fallbackToolSelection: the tool of the first pattern the input matches,
\* "" for none
fallbackTool(userInput) ==
    LET inputLower == toLowerCase(userInput)
        has(w) == includes(inputLower, w)
    IN  IF has("list") /\ (has("files") \/ has("directory")) THEN "list_files"
        ELSE IF \/ has("disk") /\ (has("usage") \/ has("space"))
                \/ has("show") /\ has("disk")
                \/ has("check") /\ has("disk")
        THEN "check_disk_usage"
        ELSE IF has("process") THEN "show_processes"
        ELSE IF has("github") \/ has("issues") THEN "github_issues"
        ELSE IF (has("git") /\ has("status")) \/ (has("show") /\ has("git")) THEN "git_status"
        ELSE IF has("search") THEN "search_web"
        ELSE IF has("open") THEN "open_application"
        ELSE IF /\ has("write") \/ has("create")
                /\ has("post") \/ has("article") \/ has("document")
        THEN "create_content"
        ELSE IF has("show") /\ has("files") THEN "list_files"
        ELSE ""

\* executeAgenticTool without its first check: any tool name is run
executeAgenticToolUnchecked(toolName, tools, ok) ==
    [ran |-> << toolName >>, error |-> IF ok THEN "" ELSE "Command failed"]

\* executeAgenticTool: a name that is not in the registry throws before a
\* command is built; create_content writes a file and runs no command; the
\* command of any other tool is run and its failure is thrown again.  What
\* an open_application learns is followed by AppSpec.
executeAgenticTool(toolName, tools, ok) ==
    IF toolName \notin tools THEN [ran |-> << >>, error |-> "Tool not found: " \o toolName]
    ELSE IF toolName = "create_content"
    THEN [ran |-> << >>, error |-> IF ok THEN "" ELSE "Content creation failed"]
    ELSE [ran |-> << toolName >>, error |-> IF ok THEN "" ELSE "Command failed"]

\* fallbackToolSelection: the tool of the pattern is executed
fallbackToolSelection(userInput, tools, ok) ==
    IF fallbackTool(userInput) = ""
    THEN [executed |-> FALSE, ran |-> << >>, error |-> "", printed |-> << >>]
    ELSE LET r == executeAgenticTool(fallbackTool(userInput), tools, ok)
         IN  [executed |-> r.error = "", ran |-> r.ran, error |-> r.error, printed |-> << >>]

\* runLocalAIForToolSelection(prompt, retryCount): the try block reads
\* getLlama, which no file declares, so every attempt ends in the catch
\* with a ReferenceError; the catch calls the function once more while
\* retryCount < 1 and throws "Tool selection failed" otherwise
RECURSIVE runLocalAIForToolSelection(_)
runLocalAIForToolSelection(retry) ==
    IF retry < 1
    THEN LET again == runLocalAIForToolSelection(retry + 1)
         IN  [attempts |-> again.attempts + 1,
              printed |-> << "Tool selection retry" >> \o again.printed,
              error |-> again.error]
    ELSE [attempts |-> 1, printed |-> << >>, error |-> "Tool selection failed"]

\* selectAndExecuteTool.  With a fallback session fallbackToolSelection is
\* awaited inside the try, so an error of its tool reaches the catch, which
\* runs fallbackToolSelection again.  Otherwise runLocalAIForToolSelection
\* is awaited: it reads getLlama, which is declared nowhere, so both its
\* attempts end in a ReferenceError, the second is thrown again and the catch
\* runs fallbackToolSelection.
selectAndExecuteTool(userInput, session, tools, ok1, ok2) ==
    LET first == fallbackToolSelection(userInput, tools, ok1)
        second == fallbackToolSelection(userInput, tools, ok2)
    IN  IF session = "fallback"
        THEN IF first.error = ""
             THEN [first EXCEPT !.printed = << "Using pattern matching for tool selection" >>]
             ELSE [second EXCEPT
                     !.ran = first.ran \o second.ran,
                     !.printed = << "Using pattern matching for tool selection",
                                    "AI tool selection failed, using pattern matching" >>]
        ELSE [first EXCEPT
                !.printed = runLocalAIForToolSelection(0).printed
                                \o << "AI tool selection failed, using pattern matching" >>]

\* the tool stage of processNaturalLanguageCommand: selectAndExecuteTool is
\* awaited; without a session runLocalAIForToolSelection initialises the
\* local model first.  A tool that was executed ends the command; no match
\* or an error leads on to the local AI stage.
ToolStage(ok1, ok2, loaded) ==
    /\ pc = "tools"
    /\ loaded \in initLocalModelResults
    /\ IF localModel = "null"
       THEN /\ localModel' = initLocalModel(localModel, loads, loaded).localModel
            /\ loads' = initLocalModel(localModel, loads, loaded).loads
            /\ lastInit' = initLocalModel(localModel, loads, loaded).lastInit
       ELSE UNCHANGED << localModel, loads, lastInit >>
    /\ LET r == selectAndExecuteTool(ran[Len(ran)].arg, localModel, agenticTools, ok1, ok2)
       IN  /\ spawned' = spawned \o
                  [i \in 1..Len(r.ran) |-> Child("executeAgenticTool", r.ran[i], "")]
           /\ IF r.executed
              THEN /\ output' = output \o r.printed \o << "Tool executed successfully" >>
                   /\ pc' = "dispatch"
              ELSE /\ output' = output \o r.printed
                   /\ pc' = "runLocalAI"
    /\ UNCHANGED << command, todo, ran, promise, cwd, exitCause, sigint, currentModel,
                    envVars, retryCount, abandoned, response, settlement, resolution, classified, toolVars >>

\* runLocalAI: if (!this.localModel || !this.localModel.ready) await initLocalModel()
InitLocalModel(loaded) ==
    /\ pc = "runLocalAI"
    /\ localModel = "null"
    /\ loaded \in initLocalModelResults
    /\ localModel' = initLocalModel(localModel, loads, loaded).localModel
    /\ loads' = initLocalModel(localModel, loads, loaded).loads
    /\ lastInit' = initLocalModel(localModel, loads, loaded).lastInit
    /\ UNCHANGED << pc, callVars, cwd, exitCause, sigint, currentModel, envVars,
                    retryCount, abandoned, response, settlement, resolution, classified, toolVars >>

\* runRealLocalAI without the test of the reply: whatever session.prompt
\* returns is trimmed and resolved
runRealLocalAIUntested(first, reply) ==
    IF first = "timer"
    THEN [settled |-> "rejected", value |-> "Local AI timeout after 30 seconds"]
    ELSE [settled |-> "resolved", value |-> trim(reply)]

\* runRealLocalAI: how its promise settles.  The timer of localModelTimeout
\* and session.prompt race: when the timer is first the promise is rejected;
\* when session.prompt returns first the timer is cleared, an empty or blank
\* reply is thrown as an error and rejected from the catch, any other reply
\* is trimmed and resolved.  A promise keeps its first settlement.
runRealLocalAI(first, reply) ==
    IF first = "timer"
    THEN [settled |-> "rejected", value |-> "Local AI timeout after 30 seconds"]
    ELSE IF trim(reply) = ""
    THEN [settled |-> "rejected", value |-> "Empty response from local model"]
    ELSE [settled |-> "resolved", value |-> trim(reply)]

\* runLocalAI with a session: runRealLocalAI arms its timer and awaits
\* session.prompt
AttemptReal ==
    /\ pc = "runLocalAI"
    /\ LlamaModel /\ localModel = "real"
    /\ pc' = "model"
    /\ settlement' = [settled |-> "pending", value |-> ""]
    /\ UNCHANGED << callVars, cwd, exitCause, sigint, currentModel, envVars, localModel,
                    loads, lastInit, retryCount, abandoned, response, resolution,
                    classified, toolVars >>

\* runLocalAI without a session: runPatternMatchingAI and its 500 ms sleep
AttemptPattern ==
    /\ pc = "runLocalAI"
    /\ localModel = "fallback"
    /\ resolution' = runPatternMatchingAI(ran[Len(ran)].arg)
    /\ pc' = "pattern"
    /\ UNCHANGED << callVars, cwd, exitCause, sigint, currentModel, envVars, localModel, loads, lastInit,
                    retryCount, abandoned, response, settlement, classified, toolVars >>

\* an attempt of runLocalAI failed: a retry after a sleep while
\* retryCount < maxRetries, else the error, which
\* processNaturalLanguageCommand catches and prints
AttemptFailed ==
    IF retryCount < maxRetries
    THEN pc' = "backoff" /\ output' = Append(output, "Local AI retry")
    ELSE pc' = "dispatch" /\ output' = Append(output, "Error processing command")

\* the reply of runLocalAI reaches processNaturalLanguageCommand
AttemptSucceeded(text) ==
    /\ response' = text
    /\ pc' = "respond"
    /\ output' = output

\* session.prompt returns before the timer: the timer is cleared; an empty
\* reply is an error, any other is trimmed and resolved
ModelAnswers(reply) ==
    /\ pc = "model"
    /\ settlement' = runRealLocalAI("prompt", reply)
    /\ IF runRealLocalAI("prompt", reply).settled = "rejected"
       THEN AttemptFailed /\ response' = response
       ELSE AttemptSucceeded(runRealLocalAI("prompt", reply).value)
    /\ UNCHANGED << command, todo, ran, spawned, promise, cwd, exitCause, sigint,
                    currentModel, envVars, localModel, loads, lastInit, retryCount, abandoned, resolution,
                    classified, toolVars >>

\* the timer of runRealLocalAI fires first: the promise is rejected and
\* session.prompt is left running
ModelTimesOut ==
    /\ pc = "model"
    /\ abandoned < MaxAbandoned
    /\ abandoned' = abandoned + 1
    /\ settlement' = runRealLocalAI("timer", "")
    /\ AttemptFailed
    /\ UNCHANGED << command, todo, ran, spawned, promise, cwd, exitCause, sigint,
                    currentModel, envVars, localModel, loads, lastInit, retryCount, response, resolution,
                    classified, toolVars >>

\* a session.prompt call that was left running returns; nothing awaits it
AbandonedPromptReturns ==
    /\ pc \notin {"exited", "pure"}
    /\ abandoned > 0
    /\ abandoned' = abandoned - 1
    /\ UNCHANGED << pc, callVars, cwd, exitCause, sigint, currentModel, envVars,
                    localModel, loads, lastInit, retryCount, response, settlement, resolution, classified, toolVars >>

\* runPatternMatchingAI settles
PatternSettles ==
    /\ pc = "pattern"
    /\ IF resolution.settled = "resolved"
       THEN AttemptSucceeded(resolution.value)
       ELSE AttemptFailed /\ response' = response
    /\ UNCHANGED << command, todo, ran, spawned, promise, cwd, exitCause, sigint,
                    currentModel, envVars, localModel, loads, lastInit, retryCount, abandoned, resolution,
                    settlement, classified, toolVars >>

\* await this.sleep(1000) ends: runLocalAI(prompt, retryCount + 1)
BackoffEnds ==
    /\ pc = "backoff"
    /\ retryCount' = retryCount + 1
    /\ pc' = "runLocalAI"
    /\ UNCHANGED << callVars, cwd, exitCause, sigint, currentModel, envVars, localModel, loads, lastInit,
                    abandoned, response, settlement, resolution, classified, toolVars >>

\* const action = response.replace('@action:', '').trim()
actionOf(text) == trim(substring(text, Len("@action:")))

\* processNaturalLanguageCommand acts on the reply: executeAction for an
\* action, executeCreation for a creation, the text itself otherwise
Respond ==
    /\ pc = "respond"
    /\ IF startsWith(response, "@action:")
       THEN /\ spawned' = Append(spawned, Child("executeAction", actionOf(response), ""))
            /\ pc' = "child"
            /\ output' = output
       ELSE /\ output' = Append(output, IF startsWith(response, "@create:")
                                        THEN "Creating file"
                                        ELSE "conversational response")
            /\ pc' = "dispatch"
            /\ spawned' = spawned
    /\ UNCHANGED << command, todo, ran, promise, cwd, exitCause, sigint, currentModel,
                    envVars, modelVars, classified, toolVars >>

(***************************************************************************)
(* The process: the REPL with everything it awaits.                        *)
(***************************************************************************)

Next ==
    \/ \E line \in readLines : ReadExit(line)
    \/ \E line \in readLines : ReadEmergencyExit(line)
    \/ \E line \in readLines : ReadEmpty(line)
    \/ \E line \in readLines : ReadCommand(line)
    \/ \E isTtyError \in BOOLEAN : PromptRejects(isTtyError)
    \/ Sigint
    \/ Sigterm
    \/ Return
    \/ ShellNothing
    \/ ShellChdir
    \/ ShellRun
    \/ StartSession
    \/ RunAI
    \/ \E event \in {"close", "error"} : ChildEnds(event)
    \/ SwitchModel
    \/ StartHandler
    \/ HandlerReturns
    \/ HandlerThrows
    \/ \E ok \in BOOLEAN : DownloadSettles(ok)
    \/ DownloadStreamError
    \/ StartConversation
    \/ ConversationReplies
    \/ StartNaturalLanguage
    \/ NaturalLanguageStage
    \/ \E ok1 \in BOOLEAN, ok2 \in BOOLEAN, loaded \in {"real", "fallback"} :
           ToolStage(ok1, ok2, loaded)
    \/ \E loaded \in {"real", "fallback"} : InitLocalModel(loaded)
    \/ AttemptReal
    \/ AttemptPattern
    \/ \E reply \in ModelReplies : ModelAnswers(reply)
    \/ ModelTimesOut
    \/ AbandonedPromptReturns
    \/ PatternSettles
    \/ BackoffEnds
    \/ Respond

Spec == Init /\ [][Next]_vars

(***************************************************************************)
(* The classifier and the resolver applied to every prompt.                *)
(***************************************************************************)

PureInit ==
    /\ pc = "pure"
    /\ command \in Prompts
    /\ todo = << >>
    /\ ran = << >>
    /\ spawned = << >>
    /\ output = << >>
    /\ promise = "none"
    /\ cwd = startDir
    /\ exitCause = "none"
    /\ sigint = FALSE
    /\ currentModel = "claude"
    /\ LlamaModel = FALSE
    /\ modelInstalled = FALSE
    /\ agenticTools = {}
    /\ localModel = "null"
    /\ loads = 0
    /\ lastInit = "none"
    /\ retryCount = 0
    /\ abandoned = 0
    /\ response = ""
    /\ settlement = NoSettlement
    /\ classified = "unset"
    /\ resolution = NoResolution
    /\ IntentIdle
    /\ RegistryIdle
    /\ AppIdle
    /\ InitIdle

\* this.isConversationalInput(command)
Classify ==
    /\ pc = "pure"
    /\ classified = "unset"
    /\ classified' = IF isConversationalInput(command) THEN "conversational"
                      ELSE "actionable"
    /\ UNCHANGED << pc, callVars, cwd, exitCause, sigint, currentModel, envVars, modelVars,
                    toolVars >>

\* await this.runPatternMatchingAI(command)
Resolve ==
    /\ pc = "pure"
    /\ resolution = NoResolution
    /\ resolution' = runPatternMatchingAI(command)
    /\ UNCHANGED << pc, callVars, cwd, exitCause, sigint, currentModel, envVars,
                    localModel, loads, lastInit, retryCount, abandoned, response, settlement, classified, toolVars >>

PureNext == Classify \/ Resolve

PureSpec == PureInit /\ [][PureNext]_vars


(***************************************************************************)
(* The intent executor: parseActionableTodos, runIntent, executeAction.    *)
(***************************************************************************)

\* encodeURIComponent(target): letters, digits and - _ . ! ~ * ' ( ) stay,
\* the other characters of the targets become their %XX escape
RECURSIVE encodeURIComponent(_)
encodeURIComponent(s) ==
    LET c == charAt(s, 1)
        encoded == CASE c = " " -> "%20"
                     [] c = "\"" -> "%22"
                     [] c = "#" -> "%23"
                     [] c = "$" -> "%24"
                     [] c = "%" -> "%25"
                     [] c = "&" -> "%26"
                     [] c = "+" -> "%2B"
                     [] c = "," -> "%2C"
                     [] c = "/" -> "%2F"
                     [] c = ":" -> "%3A"
                     [] c = ";" -> "%3B"
                     [] c = "=" -> "%3D"
                     [] c = "?" -> "%3F"
                     [] c = "@" -> "%40"
                     [] OTHER -> c
    IN  IF s = "" THEN "" ELSE encoded \o encodeURIComponent(substring(s, 1))

\* path.join(this.scriptsDir, target) for a target that is a file name
scriptPathOf(target) == "/home/user/.c9ai/scripts" \o "/" \o target

\* the target in double quotes
quoted(target) == "\"" \o target \o "\""

\* a compile rule that takes every target
compileSupportedAny(target) == TRUE

\* the targets the compile verb takes: target.endsWith('.tex')
compileSupported(target) == endsWith(target, ".tex")

\* the outcome of a runIntent call: the command it passes to runCommand, or
\* the message of the error it throws
Runs(cmd) == [command |-> cmd, error |-> ""]
Throws(message) == [command |-> "", error |-> message]

\* case 'open'
openIntent(target, os) ==
    IF os = "darwin" THEN Runs("open " \o quoted(target))
    ELSE IF os = "win32" THEN Runs("start \"\" " \o quoted(target))
    ELSE Runs("xdg-open " \o quoted(target))

\* case 'compile'
compileIntent(target) ==
    IF compileSupported(target) THEN Runs("pdflatex " \o quoted(target))
    ELSE Throws("Unsupported compile target: " \o target)

\* case 'run': the interpreter is chosen by the extension of a script that
\* exists in the scripts directory
runScriptIntent(target, os, exists) ==
    IF ~exists THEN Throws("Script not found: " \o target)
    ELSE IF endsWith(target, ".sh")
         THEN IF os = "win32"
              THEN Throws("Shell scripts (.sh) not supported on Windows. Use .bat files instead.")
              ELSE Runs("bash " \o quoted(scriptPathOf(target)))
    ELSE IF endsWith(target, ".bat") /\ os = "win32" THEN Runs(quoted(scriptPathOf(target)))
    ELSE IF endsWith(target, ".py")
         THEN Runs((IF os = "win32" THEN "python" ELSE "python3") \o " "
                       \o quoted(scriptPathOf(target)))
    ELSE IF endsWith(target, ".js") THEN Runs("node " \o quoted(scriptPathOf(target)))
    ELSE Runs(quoted(scriptPathOf(target)))

\* case 'search'
searchIntent(target, os) ==
    LET url == quoted("https://www.google.com/search?q=" \o encodeURIComponent(target)) IN
    IF os = "win32" THEN Runs("start \"\" " \o url)
    ELSE IF os = "linux" THEN Runs("xdg-open " \o url)
    ELSE Runs("open " \o url)

\* C9AI.runIntent up to its runCommand call: switch (verb.toLowerCase())
runIntent(verb, target, os, exists) ==
    CASE toLowerCase(verb) = "open" -> openIntent(target, os)
      [] toLowerCase(verb) = "compile" -> compileIntent(target)
      [] toLowerCase(verb) = "run" -> runScriptIntent(target, os, exists)
      [] toLowerCase(verb) = "search" -> searchIntent(target, os)
      [] OTHER -> Throws("Unknown intent verb: " \o verb)

\* the end of the longest run of word characters of s that starts at i
RECURSIVE wordEnd(_, _)
wordEnd(s, i) == IF i <= Len(s) /\ isWordChar(charAt(s, i)) THEN wordEnd(s, i + 1) ELSE i

\* where line.match(/@action:\s*(\w+)\s*(.*)/) matches: the first "@action:"
\* that a word follows after optional white space, 0 for none
actionMatchAt(line) ==
    LET places == { i \in 1..Len(line) :
                      /\ occursAt(line, "@action:", i)
                      /\ isWordChar(charAt(line, skipSpaces(line, i + Len("@action:")))) }
    IN  IF places = {} THEN 0 ELSE CHOOSE i \in places : \A j \in places : i <= j

\* the { verb, target } parseActionableTodos makes of a line that matches
parseActionableTodo(line) ==
    LET from == skipSpaces(line, actionMatchAt(line) + Len("@action:"))
        to == wordEnd(line, from)
    IN  [verb |-> SubSeq(line, from, to - 1),
         target |-> trim(SubSeq(line, to, Len(line)))]

\* the script of a "run " action that executeAction passes to runCommand
\* itself, by its extension, on every platform
runActionDirect(script, os) ==
    IF endsWith(script, ".py")
    THEN (IF os = "win32" THEN "python" ELSE "python3") \o " " \o script
    ELSE IF endsWith(script, ".js") THEN "node " \o script
    ELSE IF endsWith(script, ".sh") THEN "bash " \o script
    ELSE IF endsWith(script, ".bat") THEN script
    ELSE ""

\* C9AI.executeAction up to its runCommand call: the if / else-if chain on
\* the action text
executeAction(action, os, exists) ==
    IF startsWith(action, "open ")
    THEN runIntent("open", trim(substring(action, Len("open "))), os, exists)
    ELSE IF startsWith(action, "search ")
    THEN runIntent("search", trim(substring(action, Len("search "))), os, exists)
    ELSE IF startsWith(action, "list ") THEN Runs(IF os = "win32" THEN "dir" ELSE "ls -la")
    ELSE IF includes(action, "disk usage")
    THEN Runs(IF os = "win32" THEN "wmic logicaldisk get size,freespace,caption"
              ELSE "df -h")
    ELSE IF includes(action, "processes")
    THEN Runs(IF os = "win32" THEN "tasklist" ELSE "ps aux | head -20")
    ELSE IF startsWith(action, "compile ")
    THEN runIntent("compile", trim(substring(action, Len("compile "))), os, exists)
    ELSE IF startsWith(action, "run ")
    THEN LET script == trim(substring(action, Len("run "))) IN
         IF runActionDirect(script, os) # "" THEN Runs(runActionDirect(script, os))
         ELSE runIntent("run", script, os, exists)
    ELSE Runs(action)

\* the values of os.platform() the code tells apart, and one it does not
Platforms == {"linux", "darwin", "win32", "freebsd"}

\* the lines of todo.md: tasks annotated with "@action:", a verb and a
\* target, and lines parseActionableTodos skips
TodoLines ==
    { "- [ ] task @action: " \o v \o " " \o t :
        v \in {"open", "compile", "run", "search", "OPEN", "delete", "list"},
        t \in {"script.sh", "notes.docx", "paper.tex", "thesis.TEX", "backup.py",
               "deploy.js", "tool.bat", "job", "tla+ model checking", ""} }
        \cup { "- [ ] buy milk", "- [ ] @action:compile paper.tex",
               "- [ ] see @action: - then @action:  run   job  ", "- [ ] @action: " }

\* replies of runLocalAI that start with "@action:": those of the pattern
\* resolver for the phrases, and some a model session can give
ActionResponses ==
    { runPatternMatchingAI(p).value :
        p \in { q \in Phrases : startsWith(runPatternMatchingAI(q).value, "@action:") } }
        \cup { "@action: run script.sh", "@action: run backup.py", "@action: run job",
               "@action: run tool.bat", "@action: compile notes.docx",
               "@action: compile paper.tex", "@action: delete build",
               "@action: rm -rf build", "@action: list files", "@action: open excel",
               "@action:search tla+ model checking", "@action: show processes" }

\* the intent executor is given a todo line or a reply of runLocalAI
IntentInit ==
    /\ pc \in {"executeTodos", "executeAction"}
    /\ command \in IF pc = "executeTodos" THEN TodoLines ELSE ActionResponses
    /\ todo = << >>
    /\ ran = << >>
    /\ spawned = << >>
    /\ output = << >>
    /\ promise = "none"
    /\ cwd = startDir
    /\ exitCause = "none"
    /\ sigint = FALSE
    /\ currentModel \in {"claude", "gemini"}
    /\ LlamaModel = FALSE
    /\ modelInstalled = FALSE
    /\ agenticTools = {}
    /\ localModel = "null"
    /\ loads = 0
    /\ lastInit = "none"
    /\ retryCount = 0
    /\ abandoned = 0
    /\ response = ""
    /\ settlement = NoSettlement
    /\ classified = "unset"
    /\ resolution = NoResolution
    /\ osType \in Platforms
    /\ scriptExists \in BOOLEAN
    /\ thrown = ""
    /\ RegistryIdle
    /\ AppIdle
    /\ InitIdle

\* what the steps of the intent executor leave alone
intentFrame ==
    << command, todo, ran, promise, cwd, exitCause, sigint, currentModel, envVars,
       modelVars, classified, osType, scriptExists, registryVars, appVars, initVars >>

\* the outcome r of runIntent or executeAction takes effect: runCommand
\* spawns the command, or the error is thrown
Effect(r) ==
    IF r.error = ""
    THEN /\ spawned' = Append(spawned, Child("runCommand", r.command, ""))
         /\ thrown' = ""
    ELSE /\ spawned' = spawned
         /\ thrown' = r.error

\* parseActionableTodos skips a line without an "@action:" annotation
SkipTodo ==
    /\ pc = "executeTodos"
    /\ actionMatchAt(command) = 0
    /\ pc' = "done"
    /\ output' = Append(output, "No actionable todos found")
    /\ UNCHANGED << spawned, thrown, intentFrame >>

\* executeTodos: await this.runIntent(verb, target) for a selected todo
ExecuteTodo ==
    /\ pc = "executeTodos"
    /\ actionMatchAt(command) # 0
    /\ LET t == parseActionableTodo(command)
           r == runIntent(t.verb, t.target, osType, scriptExists)
       IN  /\ Effect(r)
           /\ pc' = IF r.error = "" THEN "todoChild" ELSE "todoFailed"
    /\ output' = output
    /\ UNCHANGED intentFrame

\* processNaturalLanguageCommand: await this.executeAction(action)
ExecuteAction ==
    /\ pc = "executeAction"
    /\ LET r == executeAction(actionOf(command), osType, scriptExists)
       IN  /\ Effect(r)
           /\ pc' = IF r.error = "" THEN "actionChild" ELSE "actionFailed"
    /\ output' = output
    /\ UNCHANGED intentFrame

\* the child of runCommand closes: exit code 0 resolves, another rejects
RunCommandEnds(code) ==
    /\ pc \in {"todoChild", "actionChild"}
    /\ IF code = 0
       THEN /\ pc' = "done"
            /\ thrown' = thrown
            /\ output' =
                 Append(output, IF pc = "todoChild" THEN "Execution successful" ELSE "stdout")
       ELSE /\ pc' = IF pc = "todoChild" THEN "todoFailed" ELSE "actionFailed"
            /\ thrown' = "Command failed with code"
            /\ output' = output
    /\ UNCHANGED << spawned, intentFrame >>

\* the catch of executeTodos: the error is printed and runAI starts a
\* session of the current model to analyse it
TodoFails ==
    /\ pc = "todoFailed"
    /\ output' = Append(output, "Error executing intent")
    /\ spawned' = Append(spawned,
                         Child("startInteractiveSession", sessionCommand(currentModel),
                               "analysisPrompt"))
    /\ pc' = "analysis"
    /\ UNCHANGED << thrown, intentFrame >>

\* the session that analyses the error ends
AnalysisEnds ==
    /\ pc = "analysis"
    /\ pc' = "done"
    /\ UNCHANGED << spawned, output, thrown, intentFrame >>

\* the catch of executeAction: the error is printed
ActionFails ==
    /\ pc = "actionFailed"
    /\ output' = Append(output, "Action failed")
    /\ pc' = "done"
    /\ UNCHANGED << spawned, thrown, intentFrame >>

\* executeTodos for one line, executeAction for one reply
IntentNext ==
    \/ SkipTodo
    \/ ExecuteTodo
    \/ ExecuteAction
    \/ \E code \in {0, 1} : RunCommandEnds(code)
    \/ TodoFails
    \/ AnalysisEnds
    \/ ActionFails

IntentSpec == IntentInit /\ [][IntentNext]_vars

(***************************************************************************)
(* The registry of agentic tools: handleTools.                             *)
(***************************************************************************)

\* /^[a-zA-Z_][a-zA-Z0-9_]*$/.test(input)
isIdentifier(input) ==
    /\ Len(input) > 0
    /\ isWordChar(charAt(input, 1))
    /\ charAt(input, 1) \notin {"0", "1", "2", "3", "4", "5", "6", "7", "8", "9"}
    /\ \A i \in 2..Len(input) : isWordChar(charAt(input, i))

\* the keys every object inherits from Object.prototype, of those the
\* inputs name: this.agenticTools[key] is truthy for them
ObjectPrototypeKeys == {"constructor", "__proto__", "toString"}

\* the validate of the name question: "true", or the message shown while
\* the question is asked again
validateName(input, tools) ==
    IF trim(input) = "" THEN "Tool name is required"
    ELSE IF input \in DOMAIN tools \/ input \in ObjectPrototypeKeys
    THEN "Tool already exists. Use \"tools edit\" to modify."
    ELSE IF ~isIdentifier(input)
    THEN "Invalid name. Use letters, numbers, underscores only."
    ELSE "true"

\* newTool.parameters after the loop of the parameter questions: a later
\* answer for the same name replaces an earlier one
parametersOf(given) ==
    IF ~given.hasParameters THEN NoTools
    ELSE [n \in { given.params[i].paramName : i \in DOMAIN given.params } |->
            LET last == CHOOSE i \in DOMAIN given.params :
                            /\ given.params[i].paramName = n
                            /\ \A j \in DOMAIN given.params :
                                   given.params[j].paramName = n => j <= i
            IN [type |-> given.params[last].type,
                description |-> given.params[last].description,
                required |-> given.params[last].required]]

\* newTool without the command for Windows
newToolUnixOnly(given) ==
    [name |-> given.name, description |-> given.description,
     command |-> given.command, parameters |-> parametersOf(given)]

\* newTool of addAgenticTool: windows_command is a property only when it
\* was answered
newTool(given) ==
    IF given.windows_command # ""
    THEN [name |-> given.name, description |-> given.description,
          command |-> given.command, parameters |-> parametersOf(given),
          windows_command |-> given.windows_command]
    ELSE [name |-> given.name, description |-> given.description,
          command |-> given.command, parameters |-> parametersOf(given)]

\* this.agenticTools[key] = tool
withTool(tools, key, tool) ==
    [k \in DOMAIN tools \cup {key} |-> IF k = key THEN tool ELSE tools[k]]

\* delete this.agenticTools[key]
withoutTool(tools, key) == [k \in DOMAIN tools \ {key} |-> tools[k]]

\* fs.writeJson: JSON.stringify leaves out a property whose value is
\* undefined
writeJson(tools, prompt) ==
    [exists |-> TRUE, parses |-> TRUE,
     doc |-> IF prompt = "undefined"
             THEN [tools |-> tools]
             ELSE [tools |-> tools, tool_selection_prompt |-> prompt]]

\* saveAgenticTools: the file after the call, and whether the call threw
saveAgenticTools(tools, prompt, file, written) ==
    IF written THEN [file |-> writeJson(tools, prompt), error |-> ""]
    ELSE [file |-> file, error |-> "Failed to save tools registry"]

\* loadAgenticTools: a file that exists and parses replaces the registry and
\* the prompt; a parse error is caught and nothing is assigned
loadAgenticTools(tools, prompt, file) ==
    IF file.exists /\ file.parses
    THEN [agenticTools |-> file.doc.tools,
          toolSelectionPrompt |->
              IF "tool_selection_prompt" \in DOMAIN file.doc
              THEN file.doc.tool_selection_prompt ELSE "undefined"]
    ELSE [agenticTools |-> tools, toolSelectionPrompt |-> prompt]

\* the tool tools-registry.json ships with
shippedTool ==
    [name |-> "list_files", description |-> "List files in a directory",
     command |-> "ls -la", windows_command |-> "dir",
     parameters |-> NoTools]

\* what is typed at the name question
NameInputs ==
    {"", "  ", "my_tool", "list_files", "my-tool", "2tool", "my tool",
     "constructor", "__proto__"}

\* the answers to the parameter questions: none were asked, or one
\* parameter was given
ParamAnswers ==
    { [hasParameters |-> FALSE, params |-> << >>],
      [hasParameters |-> TRUE,
       params |-> << [paramName |-> "path", description |-> "where",
                      type |-> "string", required |-> TRUE] >>] }

\* the answers inquirer can return: the name has passed validateName
Answers(tools) ==
    { [name |-> n, description |-> "My tool", command |-> "echo hi",
       windows_command |-> w, hasParameters |-> ps.hasParameters,
       params |-> ps.params] :
        n \in { i \in NameInputs : validateName(i, tools) = "true" },
        w \in {"", "echo hi"}, ps \in ParamAnswers }

\* a tool under another key, its name field going with it
renamed(tools, from, to) ==
    [k \in (DOMAIN tools \ {from}) \cup {to} |->
        IF k = to THEN [tools[from] EXCEPT !.name = to] ELSE tools[k]]

\* what the editor can leave in tools-registry.json: the file as it was, a
\* name changed, two entries given the same name, or text that does not parse
EditedFiles(file) ==
    {file, [file EXCEPT !.parses = FALSE]} \cup
    { [file EXCEPT !.doc.tools = renamed(@, k, "my-tool")] : k \in DOMAIN file.doc.tools } \cup
    { [file EXCEPT !.doc.tools[k].name = "list_files"] : k \in DOMAIN file.doc.tools }

\* how many operations on the registry are followed
MaxOps == 3

\* an operation is recorded
did(op) == Append(ops, op)

\* what the steps of handleTools leave alone
registryFrame ==
    << command, todo, ran, spawned, promise, cwd, exitCause, sigint,
       currentModel, LlamaModel, modelInstalled, modelVars, classified, osType,
       scriptExists, thrown, appVars, initVars >>

\* init() has run loadAgenticTools on the shipped file, or found none
RegistryInit ==
    /\ pc = "handleTools"
    /\ command = ""
    /\ todo = << >>
    /\ ran = << >>
    /\ spawned = << >>
    /\ output = << >>
    /\ promise = "none"
    /\ cwd = startDir
    /\ exitCause = "none"
    /\ sigint = FALSE
    /\ currentModel = "claude"
    /\ LlamaModel = FALSE
    /\ modelInstalled = FALSE
    /\ localModel = "null"
    /\ loads = 0
    /\ lastInit = "none"
    /\ retryCount = 0
    /\ abandoned = 0
    /\ response = ""
    /\ settlement = NoSettlement
    /\ classified = "unset"
    /\ resolution = NoResolution
    /\ IntentIdle
    /\ toolsFile \in {NoFile,
                      writeJson(withTool(NoTools, "list_files", shippedTool), "Select a tool")}
    /\ registry = loadAgenticTools(NoTools, "undefined", toolsFile).agenticTools
    /\ toolSelectionPrompt = loadAgenticTools(NoTools, "undefined", toolsFile).toolSelectionPrompt
    /\ agenticTools = DOMAIN registry
    /\ answers = NoAnswers
    /\ ops = << >>
    /\ AppIdle
    /\ InitIdle

\* tools add: the questions of addAgenticTool are asked
StartAdd ==
    /\ pc = "handleTools"
    /\ pc' = "addAgenticTool"
    /\ UNCHANGED << output, agenticTools, registryVars, registryFrame >>

\* the name typed is refused by validate: its message is shown and the
\* question is asked again
NameRefused(input) ==
    /\ pc = "addAgenticTool"
    /\ validateName(input, registry) # "true"
    /\ output' = << validateName(input, registry) >>
    /\ UNCHANGED << pc, agenticTools, registryVars, registryFrame >>

\* the questions are answered: the tool is put in the registry and the
\* registry is saved; an error of the save is printed by the catch
AddAgenticTool(given, written) ==
    /\ pc = "addAgenticTool"
    /\ Len(ops) < MaxOps
    /\ given \in Answers(registry)
    /\ answers' = given
    /\ output' = << >>
    /\ registry' = withTool(registry, given.name, newTool(given))
    /\ agenticTools' = DOMAIN registry'
    /\ toolsFile' = saveAgenticTools(registry', toolSelectionPrompt, toolsFile, written).file
    /\ ops' = did(IF written THEN "add" ELSE "addUnsaved")
    /\ pc' = "handleTools"
    /\ UNCHANGED << toolSelectionPrompt, registryFrame >>

\* the questions are interrupted: inquirer rejects and the catch is silent
AddInterrupted ==
    /\ pc = "addAgenticTool"
    /\ pc' = "handleTools"
    /\ output' = << >>
    /\ UNCHANGED << agenticTools, registryVars, registryFrame >>

\* tools remove <name>: a tool of the registry is deleted when the
\* question is confirmed, and the registry is saved
RemoveAgenticTool(toolName, confirm, written) ==
    /\ pc = "handleTools"
    /\ IF toolName # "" /\ (toolName \in DOMAIN registry \/ toolName \in ObjectPrototypeKeys)
          /\ confirm /\ Len(ops) < MaxOps
       THEN /\ registry' = withoutTool(registry, toolName)
            /\ toolsFile' = saveAgenticTools(registry', toolSelectionPrompt, toolsFile,
                                             written).file
            /\ ops' = did("remove")
       ELSE UNCHANGED << registry, toolsFile, ops >>
    /\ agenticTools' = DOMAIN registry'
    /\ UNCHANGED << pc, output, toolSelectionPrompt, answers, registryFrame >>

\* tools edit <name>: the editor is run on tools-registry.json and, when it
\* ends with code 0, the registry is loaded from what it left
EditAgenticTool(toolName, edited, code) ==
    /\ pc = "handleTools"
    /\ IF toolName # "" /\ (toolName \in DOMAIN registry \/ toolName \in ObjectPrototypeKeys)
          /\ Len(ops) < MaxOps
       THEN /\ edited \in EditedFiles(toolsFile)
            /\ toolsFile' = edited
            /\ IF code = 0
               THEN /\ registry' = loadAgenticTools(registry, toolSelectionPrompt,
                                                    edited).agenticTools
                    /\ toolSelectionPrompt' =
                           loadAgenticTools(registry, toolSelectionPrompt,
                                            edited).toolSelectionPrompt
               ELSE UNCHANGED << registry, toolSelectionPrompt >>
            /\ ops' = did("edit")
       ELSE /\ edited = toolsFile
            /\ UNCHANGED << registry, toolSelectionPrompt, toolsFile, ops >>
    /\ agenticTools' = DOMAIN registry'
    /\ UNCHANGED << pc, output, answers, registryFrame >>

\* tools reload: await this.loadAgenticTools()
ReloadAgenticTools ==
    /\ pc = "handleTools"
    /\ Len(ops) < MaxOps
    /\ registry' = loadAgenticTools(registry, toolSelectionPrompt, toolsFile).agenticTools
    /\ toolSelectionPrompt' =
           loadAgenticTools(registry, toolSelectionPrompt, toolsFile).toolSelectionPrompt
    /\ agenticTools' = DOMAIN registry'
    /\ ops' = did("load")
    /\ UNCHANGED << pc, output, toolsFile, answers, registryFrame >>

RegistryNext ==
    \/ StartAdd
    \/ \E input \in NameInputs : NameRefused(input)
    \/ \E given \in Answers(registry), written \in BOOLEAN : AddAgenticTool(given, written)
    \/ AddInterrupted
    \/ \E toolName \in NameInputs, confirm \in BOOLEAN, written \in BOOLEAN :
           RemoveAgenticTool(toolName, confirm, written)
    \/ \E toolName \in NameInputs, edited \in EditedFiles(toolsFile), code \in {0, 1} :
           EditAgenticTool(toolName, edited, code)
    \/ ReloadAgenticTools

RegistrySpec == RegistryInit /\ [][RegistryNext]_vars

(***************************************************************************)
(* open_application: getApplicationCommand and what is learned.            *)
(***************************************************************************)

\* the command that opens an application known by name
appCommand(app, platform) ==
    IF platform = "darwin" THEN "open -a " \o quoted(app)
    ELSE IF platform = "win32" THEN "start \"\" " \o quoted(app)
    ELSE app

\* getApplicationCommand: the mapping of this.appMappings, then the mapping
\* learned, then the platform's way to open a name
getApplicationCommand(appName, platform, mappings, learning) ==
    LET appLower == toLowerCase(appName)
    IN  IF appLower \in DOMAIN mappings /\ platform \in DOMAIN mappings[appLower]
        THEN appCommand(mappings[appLower][platform], platform)
        ELSE IF /\ learning.defined
                /\ << appLower, platform >> \in DOMAIN learning.successful_mappings
        THEN appCommand(learning.successful_mappings[<< appLower, platform >>], platform)
        ELSE IF platform \in {"darwin", "win32"} THEN appCommand(appName, platform)
        ELSE "xdg-open " \o appName

\* suggestApplicationAlternatives
suggestApplicationAlternatives(appName, platform) ==
    IF platform \notin {"darwin", "win32", "linux"} THEN << >>
    ELSE CASE appName = "calculator" ->
                 [darwin |-> << "Calculator", "Spotlight Calculator" >>,
                  win32 |-> << "calc", "calculator.exe" >>,
                  linux |-> << "gnome-calculator", "kcalc", "qalculate-gtk" >>][platform]
           [] appName = "notepad" ->
                 [darwin |-> << "TextEdit", "Notes" >>,
                  win32 |-> << "notepad", "notepad.exe" >>,
                  linux |-> << "gedit", "nano", "vim" >>][platform]
           [] appName = "terminal" ->
                 [darwin |-> << "Terminal", "iTerm" >>,
                  win32 |-> << "cmd", "powershell" >>,
                  linux |-> << "gnome-terminal", "konsole", "xterm" >>][platform]
           [] OTHER -> << >>

\* this.learningData.successful_mappings[appLower][platform] = app
learnt(learning, appLower, platform, app) ==
    [learning EXCEPT !.successful_mappings =
        [k \in DOMAIN @ \cup {<< appLower, platform >>} |->
            IF k = << appLower, platform >> THEN app ELSE @[k]]]

\* logSuccess: successful_mappings is created; on darwin the name between
\* the quotes of -a "..." is learned for the target
logSuccess(target, platform, cmd, learning) ==
    LET made == [learning EXCEPT !.defined = TRUE]
    IN  IF platform = "darwin" /\ startsWith(cmd, "open -a \"") /\ Len(cmd) > 10
        THEN learnt(made, toLowerCase(target), platform, SubSeq(cmd, 10, Len(cmd) - 1))
        ELSE made

\* the loop of logFailureAndLearn over the suggestions: each is looked up
\* and run; the first that runs is learned, unless successful_mappings is
\* undefined, when the assignment throws and the catch of the loop takes it
\* for a failure of the suggestion
RECURSIVE tryAlternatives(_, _, _, _, _, _)
tryAlternatives(suggestions, appLower, platform, mappings, learning, works) ==
    IF suggestions = << >> THEN [learningData |-> learning, launched |-> << >>]
    ELSE LET altCommand == getApplicationCommand(Head(suggestions), platform,
                                                 mappings, learning)
         IN  IF altCommand \in works /\ learning.defined
             THEN [learningData |-> learnt(learning, appLower, platform, Head(suggestions)),
                   launched |-> << altCommand >>]
             ELSE LET rest == tryAlternatives(Tail(suggestions), appLower, platform,
                                              mappings, learning, works)
                  IN  [learningData |-> rest.learningData,
                       launched |-> << altCommand >> \o rest.launched]

\* logFailureAndLearn for open_application: the failure is recorded and
\* the alternatives are tried
logFailureAndLearn(target, platform, mappings, learning, works) ==
    tryAlternatives(suggestApplicationAlternatives(toLowerCase(target), platform),
                    toLowerCase(target), platform, mappings,
                    [learning EXCEPT !.failed_attempts =
                        @ \cup {<< toLowerCase(target), platform >>}],
                    works)

\* the application names asked for
Targets == {"calculator", "Notepad", "excel"}

\* an app-mappings.json with a mapping for the calculator
calculatorMappings ==
    [k \in {"calculator"} |->
        [darwin |-> "Calculator", win32 |-> "calc", linux |-> "gnome-calculator"]]

\* the commands an open_application of the target can give to runCommand
commandsOf(target) ==
    {getApplicationCommand(target, osType, appMappings, learningData)} \cup
    { getApplicationCommand(alt, osType, appMappings, learningData) :
        alt \in { suggestApplicationAlternatives(toLowerCase(target), osType)[i] :
                    i \in DOMAIN suggestApplicationAlternatives(toLowerCase(target), osType) } }

\* what the steps of open_application leave alone
appFrame ==
    << pc, command, todo, ran, spawned, output, promise, cwd, exitCause, sigint,
       currentModel, envVars, modelVars, classified, scriptExists, thrown,
       registryVars, initVars >>

\* init() has run loadAppMappings: no file, or a file with a mapping and
\* with or without learning.successful_mappings
AppInit ==
    /\ pc = "executeAgenticTool"
    /\ command = ""
    /\ todo = << >>
    /\ ran = << >>
    /\ spawned = << >>
    /\ output = << >>
    /\ promise = "none"
    /\ cwd = startDir
    /\ exitCause = "none"
    /\ sigint = FALSE
    /\ currentModel = "claude"
    /\ LlamaModel = FALSE
    /\ modelInstalled = FALSE
    /\ agenticTools = RegistryTools
    /\ localModel = "null"
    /\ loads = 0
    /\ lastInit = "none"
    /\ retryCount = 0
    /\ abandoned = 0
    /\ response = ""
    /\ settlement = NoSettlement
    /\ classified = "unset"
    /\ resolution = NoResolution
    /\ osType \in Platforms
    /\ scriptExists = FALSE
    /\ thrown = ""
    /\ RegistryIdle
    /\ appMappings \in {NoTools, calculatorMappings}
    /\ learningData \in {NoLearning, [NoLearning EXCEPT !.defined = TRUE]}
    /\ launched = << >>
    /\ InitIdle

\* runCommand on each command of a sequence: which were run, and whether
\* they ran
runCommands(commands, works) ==
    [i \in DOMAIN commands |-> [cmd |-> commands[i], ok |-> commands[i] \in works]]

\* executeAgenticTool('open_application', {target}): the command looked up
\* is run; logSuccess follows a run that worked, logFailureAndLearn one that
\* did not.  works is what runCommand can run on this machine.
OpenApplication(target, works) ==
    /\ pc = "executeAgenticTool"
    /\ works \subseteq commandsOf(target)
    /\ LET primary == getApplicationCommand(target, osType, appMappings, learningData)
           failure == logFailureAndLearn(target, osType, appMappings, learningData, works)
       IN  IF primary \in works
           THEN /\ learningData' = logSuccess(target, osType, primary, learningData)
                /\ launched' = runCommands(<< primary >>, works)
           ELSE /\ learningData' = failure.learningData
                /\ launched' = runCommands(<< primary >> \o failure.launched, works)
    /\ UNCHANGED << osType, appMappings, appFrame >>

AppNext ==
    \E target \in Targets : \E works \in SUBSET commandsOf(target) :
        OpenApplication(target, works)

AppSpec == AppInit /\ [][AppNext]_vars

(***************************************************************************)
(* The start of the process: the constructor, init() and the first        *)
(* commands.  The constructor calls init() and does not await it; the      *)
(* commands of the CLI and of the REPL are handled while it runs.          *)
(***************************************************************************)

\* how many commands are given while the process starts
MaxCommands == 2

\* the awaits of the body of init(), in their order; loadConfig is two of
\* them, reading config.json and assigning from what was read
InitSteps ==
    << "ensureDir", "copyScripts", "readConfig", "loadConfig", "loadAgenticTools",
       "loadAppMappings", "loadKnowledgeBase" >>

\* an init() call that has passed `if (this.initialized) return` and is at
\* its first await
enteredInit == [at |-> 1, read |-> "unread"]

\* the init() call has set this.initialized and returned
initReturned(call) == call.at > Len(InitSteps)

\* some init() call is between its first await and its return
initRunning == \E i \in DOMAIN initCalls : ~initReturned(initCalls[i])

\* this.currentModel = config.defaultModel || 'claude', when config.json was
\* there to be read
loadConfig(read, model) ==
    IF read \in {"none", "unread"} THEN model
    ELSE IF read = "" THEN "claude"
    ELSE read

\* what config.json can hold when the process starts
ConfigFiles == {"none", "", "claude", "gemini", "local"}

\* the variables the start of the process leaves alone
initFrame ==
    << pc, command, todo, ran, spawned, output, promise, cwd, exitCause, sigint,
       LlamaModel, modelInstalled, modelVars, classified, osType, scriptExists, thrown,
       registryVars, learningData, launched >>

\* new C9AI(): the fields are set and init() has run up to its first await
ConstructorInit ==
    /\ pc = "cli"
    /\ command = ""
    /\ todo = << >>
    /\ ran = << >>
    /\ spawned = << >>
    /\ output = << >>
    /\ promise = "none"
    /\ cwd = startDir
    /\ exitCause = "none"
    /\ sigint = FALSE
    /\ currentModel = "claude"
    /\ LlamaModel = FALSE
    /\ modelInstalled = FALSE
    /\ agenticTools = {}
    /\ localModel = "null"
    /\ loads = 0
    /\ lastInit = "none"
    /\ retryCount = 0
    /\ abandoned = 0
    /\ response = ""
    /\ settlement = NoSettlement
    /\ classified = "unset"
    /\ resolution = NoResolution
    /\ IntentIdle
    /\ RegistryIdle
    /\ AppIdle
    /\ initialized = FALSE
    /\ initCalls = << enteredInit >>
    /\ configFile \in ConfigFiles
    /\ handling = NotHandling
    /\ switched = "none"
    /\ handled = 0

\* an await of init() call i ends and the body goes on to the next one;
\* after the last one this.initialized = true
InitStep(i) ==
    /\ i \in DOMAIN initCalls
    /\ ~initReturned(initCalls[i])
    /\ LET step == InitSteps[initCalls[i].at]
       IN  /\ initCalls' = [initCalls EXCEPT
                              ![i].at = @ + 1,
                              ![i].read = IF step = "readConfig" THEN configFile ELSE @]
           /\ currentModel' = IF step = "loadConfig"
                              THEN loadConfig(initCalls[i].read, currentModel)
                              ELSE currentModel
           /\ agenticTools' = IF step = "loadAgenticTools" THEN RegistryTools
                              ELSE agenticTools
           /\ appMappings' = IF step = "loadAppMappings" THEN calculatorMappings
                             ELSE appMappings
           /\ initialized' = (initialized \/ initCalls[i].at = Len(InitSteps))
    /\ UNCHANGED << configFile, handling, switched, handled, initFrame >>

\* switchModel(model): a model that is not valid is refused; a valid one
\* is assigned to this.currentModel and saveConfig is awaited
SwitchModelCalled(model) ==
    /\ handling = NotHandling
    /\ handled < MaxCommands
    /\ handled' = handled + 1
    /\ IF model \in validModels
       THEN /\ currentModel' = model
            /\ switched' = "none"
            /\ handling' = [name |-> "switchModel", arg |-> model, at |-> "saveConfig"]
       ELSE UNCHANGED << currentModel, switched, handling >>
    /\ UNCHANGED << initialized, initCalls, configFile, agenticTools, appMappings,
                    initFrame >>

\* saveConfig settles: config.json holds the model the call was given, or
\* fs.writeJson failed and switchModel ends with its error
SaveConfigSettles(written) ==
    /\ handling.name = "switchModel"
    /\ handling.at = "saveConfig"
    /\ IF written
       THEN /\ configFile' = handling.arg
            /\ handling' = [handling EXCEPT !.at = "test"]
       ELSE /\ configFile' = configFile
            /\ handling' = NotHandling
    /\ UNCHANGED << currentModel, initialized, initCalls, switched, handled, agenticTools,
                    appMappings, initFrame >>

\* the availability test of switchModel ends and the call returns
SwitchModelReturns ==
    /\ handling.name = "switchModel"
    /\ handling.at = "test"
    /\ switched' = handling.arg
    /\ handling' = NotHandling
    /\ UNCHANGED << currentModel, initialized, initCalls, configFile, handled, agenticTools,
                    appMappings, initFrame >>

\* addTodo(task): await this.init().  The call returns at once when
\* this.initialized is set and enters the body otherwise.
AddTodoCalled ==
    /\ handling = NotHandling
    /\ handled < MaxCommands
    /\ handled' = handled + 1
    /\ IF initialized
       THEN /\ initCalls' = initCalls
            /\ handling' = [name |-> "addTodo", arg |-> "", at |-> "appendFile"]
       ELSE /\ initCalls' = Append(initCalls, enteredInit)
            /\ handling' = [name |-> "addTodo", arg |-> "", at |-> "init"]
    /\ UNCHANGED << currentModel, initialized, configFile, switched, agenticTools,
                    appMappings, initFrame >>

\* the init() call that addTodo awaits has returned
AddTodoInitialized ==
    /\ handling.name = "addTodo"
    /\ handling.at = "init"
    /\ initReturned(initCalls[Len(initCalls)])
    /\ handling' = [handling EXCEPT !.at = "appendFile"]
    /\ UNCHANGED << currentModel, initialized, initCalls, configFile, switched, handled,
                    agenticTools, appMappings, initFrame >>

\* the line is appended to todo.md and addTodo returns
AddTodoReturns ==
    /\ handling.name = "addTodo"
    /\ handling.at = "appendFile"
    /\ handling' = NotHandling
    /\ UNCHANGED << currentModel, initialized, initCalls, configFile, switched, handled,
                    agenticTools, appMappings, initFrame >>

ConstructorNext ==
    \/ \E i \in 1..(MaxCommands + 1) : InitStep(i)
    \/ \E model \in validModels \cup {"gpt"} : SwitchModelCalled(model)
    \/ \E written \in BOOLEAN : SaveConfigSettles(written)
    \/ SwitchModelReturns
    \/ AddTodoCalled
    \/ AddTodoInitialized
    \/ AddTodoReturns

ConstructorSpec == ConstructorInit /\ [][ConstructorNext]_vars

(***************************************************************************)
(* The properties of the dispatch and of the REPL.                         *)
(***************************************************************************)

\* a handleCommand call has returned and the loop prompts again
returned == pc = "prompt" /\ promise = "resolved"

\* C1 (as the code has it): for an input that begins with "!", the trimmed
\* remainder is what counts: when it is empty nothing runs; when it starts
\* with "cd" the working directory becomes the target if that is a
\* directory, a failure is printed without throwing, and no child process
\* is spawned; otherwise it is passed exactly once to runShellCommand.  In
\* every case the shell branch is the only branch that runs.
C1_ShellPassthrough ==
    (returned /\ startsWith(command, "!")) =>
        LET remainder == trim(substring(command, 1)) IN
        /\ Len(ran) = 1
        /\ ran[1].branch = "shell"
        /\ IF remainder = "" THEN spawned = << >> /\ output = << >>
           ELSE IF startsWith(remainder, "cd")
           THEN /\ spawned = << >>
                /\ IF targetDirOf(remainder) \in Directories
                   THEN cwd = targetDirOf(remainder) /\ output = << "Changed directory to" >>
                   ELSE output = << "Error changing directory" >>
           ELSE spawned = << Child("runShellCommand", remainder, "") >>

\* C1, a case of it: "! ls -la" has run "ls -la" in a shell
C1_Witness ==
    /\ returned
    /\ command = "! ls -la"
    /\ spawned = << Child("runShellCommand", "ls -la", "") >>

\* C1 as stated: the remainder is passed verbatim to runShellCommand unless
\* it starts with "cd", and then no child process is spawned
C1_RemainderVerbatim ==
    (returned /\ startsWith(command, "!")) =>
        IF startsWith(substring(command, 1), "cd")
        THEN spawned = << >>
        ELSE spawned = << Child("runShellCommand", substring(command, 1), "") >>

\* the branch the dispatch order gives an input: "!", then a mode sigil,
\* then a named command on the lower-cased first token, then the fallback
C2_FirstMatch(input) ==
    IF startsWith(input, "!") THEN "shell"
    ELSE IF startsWith(input, "@")
            /\ firstToken(substring(input, 1)) \in
                   {"claude", "gemini", "local", "conv", "chat", "cmd", "command", "tool"}
         THEN "mode"
    ELSE IF toLowerCase(firstToken(input)) \in
                {"claude", "gemini", "switch", "todos", "add", "analytics", "tools",
                 "models", "scan", "issues", "achieve", "goal", "config", "help", "logo",
                 "banner"}
         THEN "named"
    ELSE "fallback"

\* C2: every input handleCommand is called with goes to exactly one branch,
\* the first in the order shell sigil, mode sigil, named command, fallback;
\* an empty line runs nothing
C2_ExactlyOneBranch ==
    /\ promise \in {"pending", "resolved"} =>
          /\ Len(ran) + Len(todo) = 1
          /\ (ran \o todo)[1].branch = C2_FirstMatch(command)
          /\ (ran \o todo)[1].branch = "fallback" =>
                (ran \o todo)[1].handler \in {"handleConversation",
                                              "processNaturalLanguageCommand"}
    /\ (pc = "prompt" /\ command = "") => (ran = << >> /\ spawned = << >>)

\* C2, a case of it: "@foo bar", whose sigil is none of the list, went to
\* the fallback and to nothing else
C2_Witness ==
    /\ returned
    /\ command = "@foo bar"
    /\ Len(ran) = 1
    /\ ran[1].branch = "fallback"

\* C3: the promise of handleCommand never rejects; a call that ended has
\* resolved, and the catch of the REPL loop never had an error to print
C3_NeverRejects ==
    /\ promise # "rejected"
    /\ (pc = "prompt" /\ command # "") => promise = "resolved"
    /\ ~(output # << >> /\ output[Len(output)] = "Error:")

\* C3, a case of it: a handler threw, the error was logged and the call
\* resolved
C3_Witness ==
    /\ returned
    /\ ran # << >>
    /\ handlerMayThrow(ran[Len(ran)].handler)
    /\ output # << >>
    /\ output[Len(output)] = "Error executing command"

\* C4 as stated, read with "stop" as an exit word and with a failure of
\* the prompt itself set aside: the process ends only on an exit input or
\* on SIGTERM, never because of what a command ran into
C4_EndsOnlyOnRequest ==
    pc = "exited" =>
        exitCause \in ExitWords \cup {"emergency exit", "SIGTERM", "isTtyError"}

\* C5 as stated: when the loop prompts for the next input, nothing started
\* for an earlier input is still running
C5_NothingLeftRunning == pc = "prompt" => abandoned = 0

(***************************************************************************)
(* The properties of the classifier and of the resolver.                   *)
(***************************************************************************)

\* the lower-cased, trimmed input the classifier's patterns are tried on
lowerOf(input) == trim(toLowerCase(input))

\* C6: an input that matches a command pattern is classified as actionable,
\* whatever conversational pattern or marker it also has
C6_CommandPatternWins ==
    (classified # "unset" /\ commandPatterns(lowerOf(command))) =>
        classified = "actionable"

\* C6, a case of it: an input with both a command pattern and a
\* conversational pattern was classified as actionable
C6_Witness ==
    /\ command = "do you think check disk usage is useful?"
    /\ commandPatterns(lowerOf(command))
    /\ conversationalPatterns(lowerOf(command))
    /\ classified = "actionable"

\* the inputs the default decides: no command pattern, no conversational
\* pattern, neither heuristic
C7_DefaultCase(input) ==
    /\ ~commandPatterns(lowerOf(input))
    /\ ~conversationalPatterns(lowerOf(input))
    /\ ~(hasQuestionWords(lowerOf(input)) /\ hasQuestionMark(input)
            /\ ~hasCommandKeywords(lowerOf(input)))
    /\ ~hasConversationalWords(lowerOf(input))

\* C7 (as the code has it): in the default case the input is conversational
\* exactly when it contains a "?" anywhere or its trimmed text is shorter
\* than 15 characters
C7_DefaultContainsQuestionMark ==
    (classified # "unset" /\ C7_DefaultCase(command)) =>
        (classified = "conversational"
            <=> (includes(command, "?") \/ Len(lowerOf(command)) < 15))

\* C7, a case of it: a long input with a "?" in its middle was classified
\* as conversational by the default
C7_Witness ==
    /\ command = "hmm? ping the server now"
    /\ C7_DefaultCase(command)
    /\ classified = "conversational"

\* C7 as stated: in the default case the input is conversational exactly
\* when it ends in "?" or is shorter than 15 characters
C7_DefaultEndsInQuestionMark ==
    (classified # "unset" /\ C7_DefaultCase(command)) =>
        (classified = "conversational"
            <=> (endsWith(lowerOf(command), "?") \/ Len(lowerOf(command)) < 15))

\* the order of the cascade: greeting rules, app-open, file listing, search,
\* disk and process queries, compile/build, run, help, create, close/exit
C8_Order ==
    << "greeting", "howAreYou", "thanks", "open", "listFiles", "showFiles", "search",
       "find", "checkDisk", "showProcesses", "compile", "run", "help", "create", "close" >>

\* the first rule of the order whose condition holds, "unrecognized" for none
C8_FirstRule(taskLower) ==
    LET matching == { k \in 1..Len(C8_Order) : ruleMatches(C8_Order[k], taskLower) } IN
    IF matching = {} THEN "unrecognized"
    ELSE C8_Order[CHOOSE k \in matching : \A j \in matching : k <= j]

\* C8: exactly one rule fires per prompt, the first of the order that
\* matches; a prompt with "open" that no greeting rule takes resolves to an
\* "@action: open ..." result, also when it has "search"; and "open excel"
\* resolves to "@action: open excel"
C8_FirstMatchCascade ==
    resolution.settled # "none" =>
        LET taskLower == toLowerCase(command) IN
        /\ Len(resolution.fired) = 1
        /\ resolution.rule = C8_FirstRule(taskLower)
        /\ (includes(taskLower, "open")
              /\ C8_FirstRule(taskLower) \notin {"greeting", "howAreYou", "thanks"}) =>
                (resolution.settled = "resolved"
                   /\ startsWith(resolution.value, "@action: open "))
        /\ command = "open excel" => resolution.value = "@action: open excel"

\* C8, a case of it: a prompt with both "search" and "open" resolved to an
\* open action
C8_Witness ==
    /\ command = "search and open the report"
    /\ resolution.settled = "resolved"
    /\ resolution.value = "@action: open the report"

\* C9 as stated: "compile my research paper" resolves to
\* "@action: compile research_paper.tex"
C9_ResearchPaper ==
    (command = "compile my research paper" /\ resolution.settled # "none") =>
        (resolution.settled = "resolved"
           /\ resolution.value = "@action: compile research_paper.tex")

\* the suggestions getSuggestions can give
C10_Suggestions ==
    { "Try: \"open excel\"",
      "Try: \"list files\" or \"open document\"",
      "Try: \"search for [topic]\"",
      "Try: \"help\" for available commands",
      "Try commands like: \"open excel\", \"list files\", \"search for tutorials\", or \"help\"" }

\* C10: a prompt no rule matches is rejected, with a message that names the
\* prompt and ends in a suggestion; it is never resolved, and no
\* "@action:" or "@create:" result comes of it
C10_UnmatchedRejects ==
    (resolution.settled # "none"
       /\ \A k \in 1..Len(C8_Order) : ~ruleMatches(C8_Order[k], toLowerCase(command))) =>
        /\ resolution.settled = "rejected"
        /\ \E suggestion \in C10_Suggestions :
              resolution.value =
                  "I'm not sure what you mean by \"" \o command \o "\". " \o suggestion
        /\ ~startsWith(resolution.value, "@action:")
        /\ ~startsWith(resolution.value, "@create:")

\* C10, a case of it: a prompt of unknown words was rejected with the
\* general suggestion
C10_Witness ==
    /\ command = "frobnicate the quux lattice"
    /\ resolution.settled = "rejected"
    /\ resolution.value =
          "I'm not sure what you mean by \"frobnicate the quux lattice\". "
              \o "Try commands like: \"open excel\", \"list files\", "
              \o "\"search for tutorials\", or \"help\""


(***************************************************************************)
(* The properties of the intent executor.                                  *)
(***************************************************************************)

\* the intent executor has acted on its input
intentExecuted ==
    pc \in {"todoChild", "actionChild", "todoFailed", "actionFailed", "analysis", "done"}

\* the intent of the input: the verb and target of a todo line's annotation,
\* the first word and the rest of an "@action:" reply
intentOf(text) ==
    IF startsWith(text, "@action:")
    THEN [verb |-> firstToken(actionOf(text)),
          target |-> trim(restTokens(actionOf(text)))]
    ELSE IF actionMatchAt(text) # 0 THEN parseActionableTodo(text)
    ELSE [verb |-> "", target |-> ""]

\* the commands passed to runCommand
commandsRun == { spawned[i].cmd : i \in { j \in 1..Len(spawned) : spawned[j].fn = "runCommand" } }

\* C11 as stated: an intent whose verb is none of open, compile, run, search
\* ends in an error, and no shell command is run for it, whether it comes
\* from a todo line or from an "@action:" reply
C11_UnknownVerbNeverRuns ==
    (intentExecuted
       /\ intentOf(command).verb # ""
       /\ toLowerCase(intentOf(command).verb) \notin {"open", "compile", "run", "search"}) =>
        (commandsRun = {} /\ thrown # "")

\* C12 as stated: a run intent with a ".sh" target on Windows fails and no
\* command is passed to runCommand
C12_ShellScriptOnWindowsFails ==
    (intentExecuted
       /\ osType = "win32"
       /\ toLowerCase(intentOf(command).verb) = "run"
       /\ endsWith(intentOf(command).target, ".sh")) =>
        (commandsRun = {} /\ thrown # "")

\* the inputs that reach runIntent with the verb compile: every todo line
\* with that verb, and the replies "compile ..." that no earlier rule of
\* executeAction takes
C13_CompileIntent(text) ==
    /\ toLowerCase(intentOf(text).verb) = "compile"
    /\ startsWith(text, "@action:") =>
          /\ intentOf(text).verb = "compile"
          /\ startsWith(actionOf(text), "compile ")
          /\ ~includes(actionOf(text), "disk usage")
          /\ ~includes(actionOf(text), "processes")

C21_SearchUsesPlatformOpener ==
    (intentExecuted
       /\ ~startsWith(command, "@action:")
       /\ toLowerCase(intentOf(command).verb) = "search") =>
        /\ spawned # << >>
        /\ spawned[1].cmd =
               openIntent("https://www.google.com/search?q="
                              \o encodeURIComponent(intentOf(command).target),
                          osType).command


(***************************************************************************)
(* The properties of the retries of runLocalAI.                            *)
(***************************************************************************)

\* C14 as stated: for one prompt the inference call (runRealLocalAI or
\* runPatternMatchingAI) is invoked at most maxRetries times; the call in
\* flight is the one numbered retryCount + 1
C14_AtMostMaxRetriesAttempts ==
    pc \in {"model", "pattern"} => retryCount + 1 <= maxRetries

\* C15 as stated: an error of the local AI is shown to the user only after
\* the pattern resolver was tried on the input, the model session having
\* failed all its retries
C15_ErrorOnlyAfterPatternResolver ==
    (output # << >> /\ output[Len(output)] = "Error processing command") =>
        resolution.settled # "none"


(***************************************************************************)
(* The properties of the session of the local model.                       *)
(***************************************************************************)

\* C16: initLocalModel is idempotent: once this.localModel is ready, no
\* step of the running process loads the model file again or assigns
\* another object to this.localModel, so the file is loaded at most once
\* in a process
C16_InitLocalModelIdempotent ==
    [][ /\ loads' <= 1
        /\ (localModel # "null" /\ pc' # "exited") =>
               (localModel' = localModel /\ loads' = loads) ]_vars

\* initLocalModel was called with a ready session and returned at once
C16_Witness ==
    lastInit = "returned" /\ loads = 1 /\ localModel # "null"

(***************************************************************************)
(* The properties of the registry of agentic tools.                        *)
(***************************************************************************)

\* the latest operation on the registry, "none" before the first
lastOp == IF ops = << >> THEN "none" ELSE ops[Len(ops)]

C18_NamesValidAndUnique ==
    \A k \in DOMAIN registry :
        /\ isIdentifier(k)
        /\ isIdentifier(registry[k].name)
        /\ \A j \in DOMAIN registry : registry[j].name = registry[k].name => j = k

\* the names of the tools the registry file holds; none for a file that is
\* missing or does not parse
persistedTools(file) == IF file.exists /\ file.parses THEN DOMAIN file.doc.tools ELSE {}

\* C24 as stated: after an add or a confirmed remove, whether the save wrote
\* the file or failed, the registry file holds the tools of the registry in
\* memory
C24_RegistryEqualsFileAfterMutation ==
    lastOp \in {"add", "addUnsaved", "remove"} =>
        persistedTools(toolsFile) = DOMAIN registry

(***************************************************************************)
(* The properties of the application mappings.                             *)
(***************************************************************************)

\* C19 as stated: once an alternative has been learned for a name on this
\* platform, a lookup of the name gives the command of the learned
\* application
C19_LearnedMappingPreferred ==
    \A target \in Targets :
        (/\ learningData.defined
         /\ << toLowerCase(target), osType >> \in DOMAIN learningData.successful_mappings) =>
            getApplicationCommand(target, osType, appMappings, learningData) =
                appCommand(learningData.successful_mappings[<< toLowerCase(target), osType >>],
                           osType)

\* the alternatives that logFailureAndLearn launched and that ran
alternativesLaunched == { i \in 2..Len(launched) : launched[i].ok }

\* C30 as stated: after an open that failed, at most one alternative has
\* been launched with success, and when one has, the learning data hold
\* successful_mappings with an application for this platform
C30_FirstWorkingAlternativeLearned ==
    (launched # << >> /\ ~launched[1].ok) =>
        /\ Cardinality(alternativesLaunched) <= 1
        /\ alternativesLaunched # {} =>
               /\ learningData.defined
               /\ \E k \in DOMAIN learningData.successful_mappings : k[2] = osType

(***************************************************************************)
(* The properties of the @local sigil.                                     *)
(***************************************************************************)

\* C20 as stated: a line whose sigil is @local, with or without a prompt,
\* starts no child process of the claude or gemini command
C20_LocalSigilStartsNoCloudCli ==
    firstToken(trim(command)) = "@local" =>
        \A i \in DOMAIN spawned : spawned[i].cmd \notin {"claude", "gemini"}

(***************************************************************************)
(* The properties of the tool selection.                                   *)
(***************************************************************************)

\* how often the output of the current command holds a line
printedTimes(line) == Cardinality({ i \in DOMAIN output : output[i] = line })

\* C22: the call of the model for tool selection is made at most twice for
\* one input (one retry); when it has failed the input is given to the
\* pattern matching, whose notice is printed; and no command is run by
\* executeAgenticTool for a tool that is not in the registry
C22_OneRetryThenPatternsRegisteredOnly ==
    /\ runLocalAIForToolSelection(0).attempts = 2
    /\ printedTimes("Tool selection retry") <= 1
    /\ printedTimes("Tool selection retry") = 1 =>
           printedTimes("AI tool selection failed, using pattern matching") = 1
    /\ \A i \in DOMAIN spawned :
           spawned[i].fn = "executeAgenticTool" => spawned[i].cmd \in agenticTools

\* the model call was retried, the patterns chose show_processes, which the
\* registry does not hold, and nothing was run
C22_Witness ==
    /\ pc = "runLocalAI"
    /\ printedTimes("Tool selection retry") = 1
    /\ printedTimes("AI tool selection failed, using pattern matching") = 1
    /\ fallbackTool(ran[Len(ran)].arg) = "show_processes"
    /\ "show_processes" \notin agenticTools
    /\ spawned = << >>

\* the commands that tools and actions have run for the current command
toolCommands ==
    { i \in DOMAIN spawned : spawned[i].fn \in {"executeAgenticTool", "executeAction"} }

\* C27 as stated: for one input of processNaturalLanguageCommand at most
\* one command of a tool or of an action is run
C27_OneToolCommandPerInput ==
    (ran # << >> /\ ran[Len(ran)].handler = "processNaturalLanguageCommand") =>
        Cardinality(toolCommands) <= 1

(***************************************************************************)
(* The properties of runRealLocalAI.                                       *)
(***************************************************************************)

\* the promise of the latest runRealLocalAI call has been settled
isSettled(s) == s.settled \in {"resolved", "rejected"}

inConversation == ran # << >> /\ ran[Len(ran)].handler = "handleConversation"

\* C25: an input given to handleConversation starts no child process and
\* runs no tool or action, its call does not throw, and it ends with the
\* reply printed; without a model file or with a session in fallback mode
\* the reply is the pointer to @claude and @gemini
C25_ConversationExecutesNothing ==
    inConversation =>
        /\ spawned = << >>
        /\ promise # "rejected"
        /\ \A i \in DOMAIN output : output[i] # "Error executing command"
        /\ pc # "conv" =>
               /\ output # << >>
               /\ output[Len(output)] = conversationReply
               /\ (~modelInstalled \/ localModel = "fallback") =>
                      /\ includes(output[Len(output)], "@claude")
                      /\ includes(output[Len(output)], "@gemini")

\* a conversational line was answered while the session was in fallback
\* mode
C25_Witness ==
    /\ inConversation
    /\ pc = "dispatch"
    /\ modelInstalled
    /\ localModel = "fallback"
    /\ output = << "Local AI in fallback mode. Try @claude or @gemini" >>
    /\ spawned = << >>

(***************************************************************************)
(* The properties of the calls on the session of the local model.          *)
(***************************************************************************)

\* the session.prompt calls that have not returned: the one runRealLocalAI
\* awaits and those a timeout left running
promptsInFlight == abandoned + (IF pc = "model" THEN 1 ELSE 0)

\* C26 as stated: at any time at most one session.prompt call has not yet
\* returned
C26_OnePromptInFlight == promptsInFlight <= 1

(***************************************************************************)
(* The properties of the start of the process.                             *)
(***************************************************************************)

\* C28 as stated: no handler that writes this.currentModel runs while an
\* init() call is running, and once switchModel(m) has returned for a valid
\* m, this.currentModel is m
C28_InitBeforeCommands ==
    /\ handling.name = "switchModel" => ~initRunning
    /\ switched # "none" => currentModel = switched

\* C29 as stated: whatever the calls of init(), its body is entered at most
\* once
C29_InitBodyRunsOnce == Len(initCalls) <= 1

=============================================================================
